---- MODULE Spec2Model ----
(***************************************************************************)
(* A model of forge-lib's agent deployment engine: frontmatter parsing,    *)
(* provider rendering, the deploy/skip decision, manifest based orphan     *)
(* retraction and the managed block of the Codex config.toml.              *)
(*                                                                         *)
(* Text is a sequence of tokens.  A token is a string standing for a run   *)
(* of characters without a line break ("x", "---", "source", ...), or one  *)
(* of the characters the code looks at: "\n", "\r", "\"", "\\", "/", ",",  *)
(* " ".  Identifiers are spelled one character per token, so that the      *)
(* regular expression and the case transform work on them.                 *)
(***************************************************************************)
EXTENDS Integers, Sequences, FiniteSets, TLC

VARIABLES
    cfgFile,        \* <codex root>/config.toml : [exists, content]
    cfgLast,        \* observation of the last operation on config.toml
    calls,          \* number of operations performed (bounded)
    theProvider,     \* provider of the destination directory
    theConfig,       \* the merged SidecarConfig value tree
    thePrefix,    \* provenance prefix of the invocation
    module_name,    \* module name read from module.yaml ("" = none)
    src,            \* source directory : [dir, files : filename -> content]
                    \* (for the configuration loader: the module root)
    dst,            \* destination directory : [dir, files : path -> entry]
    edited,         \* paths whose provenance marker a person has removed
    last            \* observation of the last operation on the directories

vars == <<cfgFile, cfgLast, calls, theProvider, theConfig, thePrefix, module_name,
          src, dst, edited, last>>

cfgVars == <<cfgFile, cfgLast>>
paramVars == <<theProvider, theConfig, thePrefix, module_name>>

----------------------------------------------------------------------------
(* Bounds of the model *)

MaxCfgLen == 3
MaxCalls == 2
MaxSteps == 2
MaxInstallSteps == 3
MaxManifestSteps == 3
MaxResolveCalls == 2
MaxSidecarSteps == 2
MaxNameLen == 3
MaxBodyLines == 2
MaxPathLen == 3
MaxKebabLen == 4
MaxStripLines == 4

----------------------------------------------------------------------------
(* Text primitives *)

NL == "\n"
CR == "\r"

Last(s) == s[Len(s)]
Front(s) == SubSeq(s, 1, Len(s) - 1)

\* F applied to the value of x
Bind(x, F(_)) == CHOOSE r \in {F(v) : v \in {x}} : TRUE

RECURSIVE Flatten(_)
Flatten(ss) == IF ss = <<>> THEN <<>> ELSE Head(ss) \o Flatten(Tail(ss))

SeqsUpTo(A, n) == UNION {[1..k -> A] : k \in 0..n}

\* str::ends_with on token sequences
EndsWith(s, suffix) ==
    /\ Len(s) >= Len(suffix)
    /\ SubSeq(s, Len(s) - Len(suffix) + 1, Len(s)) = suffix

\* str::starts_with on token sequences
StartsWith(s, prefix) ==
    /\ Len(s) >= Len(prefix)
    /\ SubSeq(s, 1, Len(prefix)) = prefix

\* Position of the first "\n" of s, 0 when there is none
RECURSIVE FirstNL(_, _)
FirstNL(s, i) ==
    IF i > Len(s) THEN 0
    ELSE IF s[i] = NL THEN i
    ELSE FirstNL(s, i + 1)

\* One piece produced by str::lines : the text before the "\n", without a
\* "\r" that directly precedes that "\n".  A "\r" that is not followed by
\* "\n" belongs to the line.
LineOf(piece, terminated) ==
    IF terminated /\ piece # <<>> /\ Last(piece) = CR
    THEN Front(piece)
    ELSE piece

\* str::lines : split at "\n" (or "\r\n"); a final empty piece is no line.
RECURSIVE Lines(_)
Lines(s) ==
    IF s = <<>> THEN <<>>
    ELSE Bind(FirstNL(s, 1), LAMBDA i :
         IF i = 0 THEN <<LineOf(s, FALSE)>>
         ELSE <<LineOf(SubSeq(s, 1, i - 1), TRUE)>>
              \o Bind(SubSeq(s, i + 1, Len(s)), LAMBDA rest : Lines(rest)))

\* toml_escape : backslash and double quote are escaped, nothing else is
RECURSIVE toml_escape(_)
toml_escape(value) ==
    IF value = <<>> THEN <<>>
    ELSE LET c == Head(value) IN
         (IF c = "\\" THEN <<"\\", "\\">>
          ELSE IF c = "\"" THEN <<"\\", "\"">>
          ELSE <<c>>) \o toml_escape(Tail(value))

----------------------------------------------------------------------------
(* The managed block of config.toml  (deploy/mod.rs) *)

CODEX_BLOCK_BEGIN == "# BEGIN forge-council agents"
CODEX_BLOCK_END == "# END forge-council agents"

RECURSIVE EntryLines(_)
EntryLines(entries) ==
    IF entries = <<>> THEN <<>>
    ELSE LET entry == Head(entries) IN
         <<NL>>
         \o <<"[agents.">> \o entry.name \o <<"]", NL>>
         \o <<"description = ", "\"">> \o toml_escape(entry.description) \o <<"\"", NL>>
         \o <<"config_file = ", "\"", "agents/">> \o toml_escape(entry.name)
              \o <<".toml", "\"", NL>>
         \o EntryLines(Tail(entries))

format_codex_config_block(entries, source_prefix) ==
    <<CODEX_BLOCK_BEGIN, NL>>
    \o <<"# Generated by install-agents (">> \o source_prefix \o <<")", NL>>
    \o EntryLines(entries)
    \o <<CODEX_BLOCK_END, NL>>

\* The loop of strip_managed_block over the lines, with its skip flag
RECURSIVE StripLoop(_, _, _, _)
StripLoop(lines, begin, end, skip) ==
    IF lines = <<>> THEN <<>>
    ELSE LET line == Head(lines) IN
         IF line = <<begin>> THEN StripLoop(Tail(lines), begin, end, TRUE)
         ELSE IF line = <<end>> THEN StripLoop(Tail(lines), begin, end, FALSE)
         ELSE IF ~skip THEN line \o <<NL>> \o StripLoop(Tail(lines), begin, end, skip)
         ELSE StripLoop(Tail(lines), begin, end, skip)

\* while output.ends_with("\n\n") { output.pop() }
RECURSIVE TrimBlankTail(_)
TrimBlankTail(output) ==
    IF EndsWith(output, <<NL, NL>>) THEN TrimBlankTail(Front(output)) ELSE output

strip_managed_block(content, begin, end) ==
    TrimBlankTail(StripLoop(Lines(content), begin, end, FALSE))

\* The text write_codex_config_block renders from the existing content
RenderConfig(existing, entries, source_prefix) ==
    LET stripped == strip_managed_block(existing, CODEX_BLOCK_BEGIN, CODEX_BLOCK_END)
        block == format_codex_config_block(entries, source_prefix)
        head == IF stripped # <<>>
                THEN stripped
                     \o (IF ~EndsWith(stripped, <<NL>>) THEN <<NL>> ELSE <<>>)
                     \o <<NL>>
                ELSE <<>>
    IN head \o block

\* std::fs::read_to_string(config_path).unwrap_or_default()
ReadOrDefault(file) == IF file.exists THEN file.content ELSE <<>>

AbsentFile == [exists |-> FALSE, content |-> <<>>]
FileOf(content) == [exists |-> TRUE, content |-> content]

\* write_codex_config_block : what config.toml is after the call
write_codex_config_block(file, entries, source_prefix, dry_run) ==
    LET existing == ReadOrDefault(file)
        rendered == RenderConfig(existing, entries, source_prefix)
    IN IF ~dry_run THEN FileOf(rendered) ELSE file

----------------------------------------------------------------------------
(* Option values *)

None == [some |-> FALSE, v |-> <<>>]
Some(x) == [some |-> TRUE, v |-> x]
OrElse(a, b) == IF a.some THEN a ELSE b
UnwrapOr(a, d) == IF a.some THEN a.v ELSE d

----------------------------------------------------------------------------
(* Frontmatter parser  (parse/mod.rs) *)

MAX_CONTENT_SIZE == 262144

\* The frontmatter delimiter "---"
FM == "---"

\* A token that stands for MAX_CONTENT_SIZE bytes of text without line break
BigText == "<256 KiB of text>"

\* A token that stands for FillLen bytes of text without line break: with
\* ten more bytes around it a document is exactly MAX_CONTENT_SIZE long
FillText == "<256 KiB less 10 bytes of text>"
FillLen == MAX_CONTENT_SIZE - 10

\* content.len() ; every other token counts as one byte
RECURSIVE ContentLen(_)
ContentLen(content) ==
    IF content = <<>> THEN 0
    ELSE (IF Head(content) = BigText THEN MAX_CONTENT_SIZE
          ELSE IF Head(content) = FillText THEN FillLen
          ELSE 1)
         + ContentLen(Tail(content))

\* strip_prefix('\n').unwrap_or(..)
StripNL(s) == IF s # <<>> /\ Head(s) = NL THEN Tail(s) ELSE s

\* after_first.find("\n---") : position of the "\n", 0 when not found
RECURSIVE FindClose(_, _)
FindClose(s, i) ==
    IF i + 1 > Len(s) THEN 0
    ELSE IF s[i] = NL /\ s[i + 1] = FM THEN i
    ELSE FindClose(s, i + 1)

\* A faulty split_frontmatter: a document of exactly MAX_CONTENT_SIZE bytes
\* is rejected as well
split_frontmatter_at_limit(content) ==
    IF ContentLen(content) >= MAX_CONTENT_SIZE THEN None
    ELSE IF ~StartsWith(content, <<FM>>) THEN None
    ELSE LET after_first == StripNL(Tail(content)) IN
         IF StartsWith(after_first, <<FM>>)
         THEN Some([yaml |-> <<>>, body |-> StripNL(Tail(after_first))])
         ELSE LET end == FindClose(after_first, 1) IN
              IF end = 0 THEN None
              ELSE Some([yaml |-> SubSeq(after_first, 1, end - 1),
                         body |-> StripNL(SubSeq(after_first, end + 2, Len(after_first)))])

split_frontmatter(content) ==
    IF ContentLen(content) > MAX_CONTENT_SIZE THEN None
    ELSE IF ~StartsWith(content, <<FM>>) THEN None
    ELSE LET after_first == StripNL(Tail(content)) IN
         IF StartsWith(after_first, <<FM>>)
         THEN Some([yaml |-> <<>>, body |-> StripNL(Tail(after_first))])
         ELSE LET end == FindClose(after_first, 1) IN
              IF end = 0 THEN None
              ELSE Some([yaml |-> SubSeq(after_first, 1, end - 1),
                         body |-> StripNL(SubSeq(after_first, end + 2, Len(after_first)))])

(* serde_yaml::from_str on the block-style documents this code base reads  *)
(* and writes.  A line is "key: value" (<<key, ": ">> \o value), "key:"    *)
(* (<<key, ":">>) opening a list, a list item (<<"  - ">> \o value), or    *)
(* blank.  Any other line, and a plain value that contains ": ", makes the *)
(* parse fail.                                                             *)
KeySep == ": "
KeyOpen == ":"
ItemMark == "  - "

IsKeyLine(l) == Len(l) >= 2 /\ l[2] = KeySep /\ l[1] \notin {ItemMark, KeySep, KeyOpen}
IsOpenLine(l) == Len(l) = 2 /\ l[2] = KeyOpen /\ l[1] \notin {ItemMark, KeySep, KeyOpen}
IsItemLine(l) == Len(l) >= 1 /\ l[1] = ItemMark

PlainScalarOk(v) == \A i \in 1..Len(v) : v[i] \notin {KeySep, KeyOpen, ItemMark}

YamlLineOk(lines, i) ==
    LET l == lines[i] IN
    \/ l = <<>>
    \/ IsKeyLine(l) /\ PlainScalarOk(SubSeq(l, 3, Len(l)))
    \/ IsOpenLine(l)
    \/ /\ IsItemLine(l) /\ PlainScalarOk(Tail(l))
       /\ i > 1 /\ (IsOpenLine(lines[i - 1]) \/ IsItemLine(lines[i - 1]))

\* value.as_mapping() of the parsed text: the lines when the text parses
\* to a mapping, None otherwise (parse error, or an empty document)
YamlMapping(yaml_text) ==
    Bind(Lines(yaml_text), LAMBDA lines :
        IF /\ \A i \in 1..Len(lines) : YamlLineOk(lines, i)
           /\ \E i \in 1..Len(lines) : IsKeyLine(lines[i]) \/ IsOpenLine(lines[i])
        THEN Some(lines)
        ELSE None)

\* The items of the list opened on line i
RECURSIVE ItemsFrom(_, _)
ItemsFrom(lines, i) ==
    IF i > Len(lines) \/ ~IsItemLine(lines[i]) THEN <<>>
    ELSE <<Tail(lines[i])>> \o ItemsFrom(lines, i + 1)

\* mapping.get(key) : [t |-> "str" | "null" | "seq", ...]
RECURSIVE MappingGet(_, _, _)
MappingGet(lines, key, i) ==
    IF i > Len(lines) THEN None
    ELSE LET l == lines[i] IN
         IF IsKeyLine(l) /\ l[1] = key
         THEN Some(IF Len(l) = 2 THEN [t |-> "null", s |-> <<>>, q |-> <<>>]
                   ELSE [t |-> "str", s |-> SubSeq(l, 3, Len(l)), q |-> <<>>])
         ELSE IF IsOpenLine(l) /\ l[1] = key
         THEN Some(IF ItemsFrom(lines, i + 1) = <<>>
                   THEN [t |-> "null", s |-> <<>>, q |-> <<>>]
                   ELSE [t |-> "seq", s |-> <<>>, q |-> ItemsFrom(lines, i + 1)])
         ELSE MappingGet(lines, key, i + 1)

\* serde_yaml::to_string(seq).trim() : "- a\n- b"
RECURSIVE SeqToYaml(_)
SeqToYaml(items) ==
    IF items = <<>> THEN <<>>
    ELSE <<"- ">> \o Head(items)
         \o (IF Len(items) > 1 THEN <<NL>> ELSE <<>>) \o SeqToYaml(Tail(items))

\* items.join(", ")
RECURSIVE JoinComma(_)
JoinComma(items) ==
    IF items = <<>> THEN <<>>
    ELSE Head(items)
         \o (IF Len(items) > 1 THEN <<",", " ">> ELSE <<>>) \o JoinComma(Tail(items))

\* yaml.as_mapping()?.get(key) of the frontmatter of content
FrontmatterGet(content, key) ==
    Bind(split_frontmatter(content), LAMBDA fm :
        IF ~fm.some THEN None
        ELSE Bind(YamlMapping(fm.v.yaml), LAMBDA mapping :
                 IF ~mapping.some THEN None
                 ELSE MappingGet(mapping.v, key, 1)))

fm_value(content, key) ==
    Bind(FrontmatterGet(content, key), LAMBDA key_value :
        IF ~key_value.some THEN None
        ELSE IF key_value.v.t = "str" THEN Some(key_value.v.s)
        ELSE IF key_value.v.t = "null" THEN None
        ELSE Some(SeqToYaml(key_value.v.q)))

fm_list(content, key) ==
    Bind(FrontmatterGet(content, key), LAMBDA key_value :
        IF ~key_value.some THEN None
        ELSE IF key_value.v.t = "seq" THEN Some(JoinComma(key_value.v.q))
        ELSE IF key_value.v.t = "str" THEN Some(key_value.v.s)
        ELSE None)

fm_body(content) ==
    Bind(split_frontmatter(content), LAMBDA fm :
        IF fm.some THEN fm.v.body ELSE content)

\* Character classes of the regular expression ^[A-Z][a-zA-Z0-9]{2,50}$
UpperSeq == <<"A", "B", "C", "D", "E", "F", "G", "H", "I", "J", "K", "L", "M",
              "N", "O", "P", "Q", "R", "S", "T", "U", "V", "W", "X", "Y", "Z">>
LowerSeq == <<"a", "b", "c", "d", "e", "f", "g", "h", "i", "j", "k", "l", "m",
              "n", "o", "p", "q", "r", "s", "t", "u", "v", "w", "x", "y", "z">>
Upper == {UpperSeq[i] : i \in 1..Len(UpperSeq)}
Lower == {LowerSeq[i] : i \in 1..Len(LowerSeq)}
Digit == {"0", "1", "2", "3", "4", "5", "6", "7", "8", "9"}
Alnum == Upper \cup Lower \cup Digit

NameTailMin == 2
NameTailMax == 50

\* A faulty agent_name_regex: the pattern without its end anchor
agent_name_regex_prefix(name) ==
    /\ Len(name) >= 1 + NameTailMin
    /\ name[1] \in Upper
    /\ \A i \in 2..(1 + NameTailMin) : name[i] \in Alnum

agent_name_regex(name) ==
    /\ Len(name) >= 1 + NameTailMin
    /\ Len(name) <= 1 + NameTailMax
    /\ name[1] \in Upper
    /\ \A i \in 2..Len(name) : name[i] \in Alnum

\* A faulty validate_agent_name: only the empty name is refused
validate_agent_name_nonempty(name) == name # <<>>

\* validate_agent_name : TRUE for Ok(()), FALSE for Err
validate_agent_name(name) ==
    IF name = <<>> THEN FALSE
    ELSE agent_name_regex(name)

\* body.lines().next().unwrap_or("")
FirstLine(body) ==
    Bind(Lines(body), LAMBDA lines : IF lines = <<>> THEN <<>> ELSE Head(lines))

LegacyMarker == "# synced-from: "

\* A faulty is_synced_from: any source field, any legacy marker is accepted
is_synced_from_any_source(content, expected_source) ==
    \/ fm_value(content, "source").some
    \/ StartsWith(FirstLine(fm_body(content)), <<LegacyMarker>>)

\* A faulty is_synced_from: the legacy marker counts on any line
is_synced_from_any_line(content, expected_source) ==
    Bind(fm_value(content, "source"), LAMBDA source :
        IF source.some /\ (\/ source.v = expected_source
                           \/ EndsWith(source.v, <<"/">> \o expected_source))
        THEN TRUE
        ELSE \E lines \in {Lines(fm_body(content))} :
                \E i \in 1..Len(lines) : lines[i] = <<LegacyMarker>> \o expected_source)

is_synced_from(content, expected_source) ==
    Bind(fm_value(content, "source"), LAMBDA source :
        IF source.some /\ (\/ source.v = expected_source
                           \/ EndsWith(source.v, <<"/">> \o expected_source))
        THEN TRUE
        ELSE LET expected == <<LegacyMarker>> \o expected_source
                 body == fm_body(content)
             IN FirstLine(body) = expected)

----------------------------------------------------------------------------
(* Layered configuration  (sidecar/mod.rs).  The merged YAML value tree:   *)
(* a mapping is a function from keys (token sequences) to values.          *)

VNull == [t |-> "null"]
VStr(s) == [t |-> "str", s |-> s]
VSeq(q) == [t |-> "seq", q |-> q]
VMap(m) == [t |-> "map", m |-> m]

RECURSIVE navigate(_, _)
navigate(value, keys) ==
    IF keys = <<>> THEN Some(value)
    ELSE IF value.t # "map" THEN None
    ELSE IF Head(keys) \notin DOMAIN value.m THEN None
    ELSE navigate(value.m[Head(keys)], Tail(keys))

yaml_string(value, key) ==
    IF value.t # "map" THEN None
    ELSE IF key \notin DOMAIN value.m THEN None
    ELSE IF value.m[key].t = "str" THEN Some(value.m[key].s)
    ELSE None

\* The strings of a sequence value, for serde_yaml::to_string
RECURSIVE SeqStrings(_)
SeqStrings(q) ==
    IF q = <<>> THEN <<>>
    ELSE (IF Head(q).t = "str" THEN <<Head(q).s>> ELSE <<<<"~">>>>) \o SeqStrings(Tail(q))

normalize_value(val) ==
    IF val.t = "str" THEN Some(val.s)
    ELSE IF val.t = "null" THEN None
    ELSE IF val.t = "seq" THEN Some(SeqToYaml(SeqStrings(val.q)))
    ELSE Some(<<"<yaml mapping>">>)

DefaultFast == <<"sonnet">>
DefaultStrong == <<"opus">>

\* A faulty global_tiers: no default for a tier the section lacks
global_tiers_section_only(raw) ==
    LET shared == OrElse(navigate(raw, <<<<"shared">>, <<"models">>>>),
                         navigate(raw, <<<<"models">>>>))
    IN IF shared.some
       THEN [fast |-> UnwrapOr(yaml_string(shared.v, <<"fast">>), <<>>),
             strong |-> UnwrapOr(yaml_string(shared.v, <<"strong">>), <<>>)]
       ELSE [fast |-> DefaultFast, strong |-> DefaultStrong]

global_tiers(raw) ==
    LET shared == OrElse(navigate(raw, <<<<"shared">>, <<"models">>>>),
                         navigate(raw, <<<<"models">>>>))
    IN IF shared.some
       THEN [fast |-> UnwrapOr(yaml_string(shared.v, <<"fast">>), DefaultFast),
             strong |-> UnwrapOr(yaml_string(shared.v, <<"strong">>), DefaultStrong)]
       ELSE [fast |-> DefaultFast, strong |-> DefaultStrong]

\* navigate(..).filter(Value::is_mapping) / .filter(Value::is_sequence)
FilterType(opt, t) == IF opt.some /\ opt.v.t = t THEN opt ELSE None

\* A faulty provider_tiers: providers.<p>.models is taken whatever it is
provider_tiers_any_models(raw, provider) ==
    LET global == global_tiers(raw)
        provider_section ==
            OrElse(navigate(raw, <<<<"providers">>, <<provider>>, <<"models">>>>),
            OrElse(navigate(raw, <<<<"providers">>, <<provider>>>>),
                   navigate(raw, <<<<provider>>>>)))
    IN IF provider_section.some
       THEN [fast |-> UnwrapOr(yaml_string(provider_section.v, <<"fast">>), global.fast),
             strong |-> UnwrapOr(yaml_string(provider_section.v, <<"strong">>), global.strong)]
       ELSE global

provider_tiers(raw, provider) ==
    LET global == global_tiers(raw)
        provider_section ==
            OrElse(FilterType(navigate(raw, <<<<"providers">>, <<provider>>, <<"models">>>>), "map"),
            OrElse(navigate(raw, <<<<"providers">>, <<provider>>>>),
                   navigate(raw, <<<<provider>>>>)))
    IN IF provider_section.some
       THEN [fast |-> UnwrapOr(yaml_string(provider_section.v, <<"fast">>), global.fast),
             strong |-> UnwrapOr(yaml_string(provider_section.v, <<"strong">>), global.strong)]
       ELSE global

\* A faulty is_model_whitelisted: an empty whitelist allows every model
is_model_whitelisted_fail_open(raw, provider, model) ==
    LET whitelist ==
            OrElse(navigate(raw, <<<<"providers">>, <<provider>>, <<"whitelist">>>>),
            OrElse(FilterType(navigate(raw, <<<<"providers">>, <<provider>>, <<"models">>>>), "seq"),
                   navigate(raw, <<<<provider>>, <<"models">>>>)))
    IN IF whitelist.some /\ whitelist.v.t = "seq" /\ whitelist.v.q # <<>>
       THEN \E i \in 1..Len(whitelist.v.q) :
                    whitelist.v.q[i].t = "str" /\ whitelist.v.q[i].s = model
       ELSE TRUE

is_model_whitelisted(raw, provider, model) ==
    LET whitelist ==
            OrElse(navigate(raw, <<<<"providers">>, <<provider>>, <<"whitelist">>>>),
            OrElse(FilterType(navigate(raw, <<<<"providers">>, <<provider>>, <<"models">>>>), "seq"),
                   navigate(raw, <<<<provider>>, <<"models">>>>)))
    IN IF whitelist.some /\ whitelist.v.t = "seq"
       THEN IF whitelist.v.q = <<>> THEN FALSE
            ELSE \E i \in 1..Len(whitelist.v.q) :
                    whitelist.v.q[i].t = "str" /\ whitelist.v.q[i].s = model
       ELSE TRUE

agent_value(raw, agent, key) ==
    LET val == OrElse(navigate(raw, <<<<"agents">>, agent, <<key>>>>),
                      navigate(raw, <<agent, <<key>>>>))
    IN IF val.some THEN normalize_value(val.v) ELSE None

provider_reasoning_effort(raw, provider, model_tier) ==
    LET val == OrElse(navigate(raw, <<<<"providers">>, <<provider>>, <<"reasoning_effort">>, model_tier>>),
                      navigate(raw, <<<<provider>>, <<"reasoning_effort">>, model_tier>>))
    IN IF val.some THEN normalize_value(val.v) ELSE None

\* A faulty resolve_model: the strong tier is looked at first
resolve_model_strong_first(model, global, provider) ==
    IF model = <<"strong">> \/ model = global.strong THEN provider.strong
    ELSE IF model = <<"fast">> \/ model = global.fast THEN provider.fast
    ELSE model

\* A faulty resolve_model: the global strong alias is not resolved
resolve_model_literal_strong(model, global, provider) ==
    IF model = <<"fast">> \/ model = global.fast THEN provider.fast
    ELSE IF model = <<"strong">> THEN provider.strong
    ELSE model

resolve_model(model, global, provider) ==
    IF model = <<"fast">> \/ model = global.fast THEN provider.fast
    ELSE IF model = <<"strong">> \/ model = global.strong THEN provider.strong
    ELSE model

\* A faulty merge_values: an overlay mapping replaces a base mapping
merge_values_shallow(base, overlay) ==
    IF overlay.t # "null" THEN overlay ELSE base

\* merge_values : two mappings merge key by key, a null overlay keeps the
\* base, any other overlay replaces it
RECURSIVE merge_values(_, _)
merge_values(base, overlay) ==
    IF base.t = "map" /\ overlay.t = "map"
    THEN VMap([k \in DOMAIN base.m \cup DOMAIN overlay.m |->
                  IF k \notin DOMAIN overlay.m THEN base.m[k]
                  ELSE IF k \in DOMAIN base.m THEN merge_values(base.m[k], overlay.m[k])
                  ELSE overlay.m[k]])
    ELSE IF overlay.t # "null" THEN overlay
    ELSE base

\* A file of the module root: text that serde_yaml parses to value, or text
\* it rejects.  An empty file parses to null.
YamlFile(value) == [parses |-> TRUE, value |-> value]
CorruptFile == [parses |-> FALSE, value |-> VNull]
EmptyYamlFile == YamlFile(VNull)

\* load_yaml_file : read_to_string(path).ok()? then from_str(..).ok()
load_yaml_file(root, filename) ==
    IF filename \notin DOMAIN root THEN None
    ELSE IF ~root[filename].parses THEN None
    ELSE Some(root[filename].value)

\* The two layers SidecarConfig::load reads
defaults_layer(root) ==
    UnwrapOr(OrElse(load_yaml_file(root, "defaults.yaml"),
                    load_yaml_file(root, "defaults.yml")), VNull)
config_layer(root) ==
    UnwrapOr(OrElse(load_yaml_file(root, "config.yaml"),
                    load_yaml_file(root, "config.yml")), VNull)

\* SidecarConfig::load : the merged tree
load(root) == merge_values(defaults_layer(root), config_layer(root))

----------------------------------------------------------------------------
(* Provider profile  (deploy/provider.rs) *)

Providers == {"claude", "gemini", "codex"}

\* Provider::agent_extension
agent_extension(provider) == IF provider = "codex" THEN "toml" ELSE "md"

to_ascii_lowercase(ch) ==
    IF ch \in Upper
    THEN LowerSeq[CHOOSE i \in 1..Len(UpperSeq) : UpperSeq[i] = ch]
    ELSE ch

\* A faulty to_kebab_case: a hyphen goes before every uppercase letter but
\* the first character
RECURSIVE KebabLoop_every_upper(_, _)
KebabLoop_every_upper(name, prev_was_lower_or_digit) ==
    IF name = <<>> THEN <<>>
    ELSE LET ch == Head(name) IN
         IF ch \in Upper
         THEN (IF prev_was_lower_or_digit THEN <<"-">> ELSE <<>>)
              \o <<to_ascii_lowercase(ch)>> \o KebabLoop_every_upper(Tail(name), TRUE)
         ELSE IF ch = " " \/ ch = "_"
         THEN <<"-">> \o KebabLoop_every_upper(Tail(name), FALSE)
         ELSE <<ch>> \o KebabLoop_every_upper(Tail(name), TRUE)

\* First loop of to_kebab_case, with its prev_was_lower_or_digit flag
RECURSIVE KebabLoop(_, _)
KebabLoop(name, prev_was_lower_or_digit) ==
    IF name = <<>> THEN <<>>
    ELSE LET ch == Head(name) IN
         IF ch \in Upper
         THEN (IF prev_was_lower_or_digit THEN <<"-">> ELSE <<>>)
              \o <<to_ascii_lowercase(ch)>> \o KebabLoop(Tail(name), FALSE)
         ELSE IF ch = " " \/ ch = "_"
         THEN <<"-">> \o KebabLoop(Tail(name), FALSE)
         ELSE <<ch>> \o KebabLoop(Tail(name), ch \in Lower \/ ch \in Digit)

\* Second loop of to_kebab_case: collapse consecutive hyphens
RECURSIVE CollapseHyphens(_, _)
CollapseHyphens(result, prev_was_hyphen) ==
    IF result = <<>> THEN <<>>
    ELSE LET ch == Head(result) IN
         IF ch = "-"
         THEN (IF ~prev_was_hyphen THEN <<"-">> ELSE <<>>) \o CollapseHyphens(Tail(result), TRUE)
         ELSE <<ch>> \o CollapseHyphens(Tail(result), FALSE)

to_kebab_case(name) == CollapseHyphens(KebabLoop(name, FALSE), FALSE)

format_name(provider, name) ==
    IF provider = "gemini" THEN to_kebab_case(name) ELSE name

\* Provider::from_path : a path is the sequence of its pieces, and
\* path_str.contains(piece) is the occurrence of the piece
from_path(path) ==
    IF \E i \in 1..Len(path) : path[i] = ".gemini" THEN "gemini"
    ELSE IF \E i \in 1..Len(path) : path[i] = ".codex" THEN "codex"
    ELSE "claude"

\* str::to_ascii_lowercase on the tool names of the model
ToolLower(tool) ==
    IF tool = <<"Read">> THEN <<"read">>
    ELSE IF tool = <<"Write">> THEN <<"write">>
    ELSE IF tool = <<"Bash">> THEN <<"bash">>
    ELSE IF tool = <<"Grep">> THEN <<"grep">>
    ELSE tool

map_tool(provider, tool) ==
    IF provider # "gemini" THEN tool
    ELSE LET lower == ToolLower(tool) IN
         IF lower = <<"read">> THEN <<"read_file">>
         ELSE IF lower = <<"write">> THEN <<"write_file">>
         ELSE IF lower \in {<<"edit">>, <<"replace">>} THEN <<"replace">>
         ELSE IF lower = <<"grep">> THEN <<"grep_search">>
         ELSE IF lower = <<"glob">> THEN <<"glob">>
         ELSE IF lower \in {<<"bash">>, <<"shell">>, <<"run">>} THEN <<"run_shell_command">>
         ELSE IF lower = <<"websearch">> THEN <<"google_web_search">>
         ELSE IF lower = <<"webfetch">> THEN <<"web_fetch">>
         ELSE lower

\* str::split on a separator (a token sequence) : the pieces
RECURSIVE SplitOn(_, _, _)
SplitOn(s, sep, acc) ==
    IF s = <<>> THEN <<acc>>
    ELSE IF StartsWith(s, sep)
    THEN <<acc>> \o Bind(SubSeq(s, Len(sep) + 1, Len(s)), LAMBDA rest : SplitOn(rest, sep, <<>>))
    ELSE Bind(Tail(s), LAMBDA rest :
         Bind(Append(acc, Head(s)), LAMBDA acc1 : SplitOn(rest, sep, acc1)))

\* str::trim
RECURSIVE Trim(_)
Trim(s) ==
    IF s # <<>> /\ Head(s) = " " THEN Trim(Tail(s))
    ELSE IF s # <<>> /\ Last(s) = " " THEN Trim(Front(s))
    ELSE s

RECURSIVE MapToolsLoop(_, _)
MapToolsLoop(provider, pieces) ==
    IF pieces = <<>> THEN <<>>
    ELSE LET t == Trim(Head(pieces)) IN
         (IF t # <<>> THEN <<map_tool(provider, t)>> ELSE <<>>)
         \o MapToolsLoop(provider, Tail(pieces))

map_tools(provider, tools) ==
    JoinComma(MapToolsLoop(provider, SplitOn(tools, <<",">>, <<>>)))

----------------------------------------------------------------------------
(* Metadata extraction and rendering  (deploy/mod.rs) *)

\* filename.starts_with("_Template") || filename.starts_with("Template")
IsTemplate(filename) ==
    StartsWith(filename, <<"_Template">>) \/ StartsWith(filename, <<"Template">>)

\* The record for a document whose name is known
AgentMetaOf(content, filename, provider, config, source_prefix, name, model_tier) ==
         LET description == UnwrapOr(OrElse(fm_value(content, "description"),
                                     OrElse(fm_value(content, "claude.description"),
                                            agent_value(config, name, "description"))),
                                     <<"Specialist agent">>)
             tools == OrElse(agent_value(config, name, "tools"),
                      OrElse(fm_list(content, "claude.tools"),
                             fm_value(content, "claude.tools")))
             global == global_tiers(config)
             tiers == provider_tiers(config, provider)
             model == Bind(global, LAMBDA g : Bind(tiers, LAMBDA t :
                          resolve_model(model_tier, g, t)))
             reasoning_effort == OrElse(agent_value(config, name, "reasoning_effort"),
                                        provider_reasoning_effort(config, provider, model_tier))
             display_name == format_name(provider, name)
             source == IF source_prefix = <<>> THEN filename
                       ELSE source_prefix \o <<"/">> \o filename
         IN Some([name |-> name, display_name |-> display_name, model |-> model,
                  description |-> description, tools |-> tools,
                  source_file |-> filename, source |-> source,
                  reasoning_effort |-> reasoning_effort])

\* A faulty extract_agent_meta: the document's legacy field is read before
\* the configuration override
extract_agent_meta_legacy_first(content, filename, provider, config, source_prefix) ==
    IF IsTemplate(filename) THEN None
    ELSE Bind(OrElse(fm_value(content, "name"), fm_value(content, "claude.name")),
              LAMBDA name_opt :
        IF ~name_opt.some THEN None
        ELSE IF name_opt.v = <<>> THEN None
        ELSE Bind(UnwrapOr(OrElse(fm_value(content, "claude.model"),
                                  agent_value(config, name_opt.v, "model")),
                           <<"sonnet">>),
                  LAMBDA model_tier :
                      AgentMetaOf(content, filename, provider, config, source_prefix,
                                  name_opt.v, model_tier)))

extract_agent_meta(content, filename, provider, config, source_prefix) ==
    IF IsTemplate(filename) THEN None
    ELSE Bind(OrElse(fm_value(content, "name"), fm_value(content, "claude.name")),
              LAMBDA name_opt :
        IF ~name_opt.some THEN None
        ELSE IF name_opt.v = <<>> THEN None
        ELSE Bind(UnwrapOr(OrElse(agent_value(config, name_opt.v, "model"),
                                  fm_value(content, "claude.model")),
                           <<"sonnet">>),
                  LAMBDA model_tier :
                      AgentMetaOf(content, filename, provider, config, source_prefix,
                                  name_opt.v, model_tier)))

\* body, with a line break added when it does not end in one
WithFinalNL(body) == IF EndsWith(body, <<NL>>) THEN body ELSE body \o <<NL>>

\* for tool in mapped.split(", ") { writeln!(out, "  - {tool}") }
RECURSIVE ToolItems(_)
ToolItems(pieces) ==
    IF pieces = <<>> THEN <<>>
    ELSE <<ItemMark>> \o Head(pieces) \o <<NL>> \o ToolItems(Tail(pieces))

\* A faulty format_agent_output: the model is written whether or not it is
\* allowed
format_agent_output_model_unchecked(meta, body, provider, model_allowed) ==
    IF provider = "codex"
    THEN [primary |->
              <<"# source: ">> \o meta.source \o <<NL>>
              \o <<"description = ", "\"">> \o toml_escape(meta.description) \o <<"\"", NL>>
              \o <<"model = ", "\"">> \o toml_escape(meta.model) \o <<"\"", NL>>
              \o (IF meta.reasoning_effort.some
                  THEN <<"model_reasoning_effort = ", "\"">> \o meta.reasoning_effort.v
                       \o <<"\"", NL>>
                  ELSE <<>>)
              \o <<"model_instructions_file = ", "\"">>
              \o toml_escape(<<"agents/">> \o meta.name \o <<".", "prompt.md">>)
              \o <<"\"", NL>>,
          prompt_file |-> Some([name |-> meta.name \o <<".", "prompt.md">>,
                                content |-> WithFinalNL(body)])]
    ELSE [primary |->
              <<FM, NL>>
              \o <<"name", KeySep>> \o meta.display_name \o <<NL>>
              \o <<"description", KeySep>> \o meta.description \o <<NL>>
              \o (IF provider = "gemini" THEN <<"kind", KeySep, "local", NL>> ELSE <<>>)
              \o <<"model", KeySep>> \o meta.model \o <<NL>>
              \o (IF ~meta.tools.some THEN <<>>
                  ELSE IF provider = "gemini"
                  THEN <<"tools", KeyOpen, NL>>
                       \o ToolItems(SplitOn(map_tools(provider, meta.tools.v), <<",", " ">>, <<>>))
                  ELSE <<"tools", KeySep>> \o meta.tools.v \o <<NL>>)
              \o <<"source", KeySep>> \o meta.source \o <<NL>>
              \o <<FM, NL>>
              \o WithFinalNL(body),
          prompt_file |-> None]

format_agent_output(meta, body, provider, model_allowed) ==
    IF provider = "codex"
    THEN [primary |->
              <<"# source: ">> \o meta.source \o <<NL>>
              \o <<"description = ", "\"">> \o toml_escape(meta.description) \o <<"\"", NL>>
              \o (IF model_allowed
                  THEN <<"model = ", "\"">> \o toml_escape(meta.model) \o <<"\"", NL>>
                  ELSE <<>>)
              \o (IF meta.reasoning_effort.some
                  THEN <<"model_reasoning_effort = ", "\"">> \o meta.reasoning_effort.v
                       \o <<"\"", NL>>
                  ELSE <<>>)
              \o <<"model_instructions_file = ", "\"">>
              \o toml_escape(<<"agents/">> \o meta.name \o <<".", "prompt.md">>)
              \o <<"\"", NL>>,
          prompt_file |-> Some([name |-> meta.name \o <<".", "prompt.md">>,
                                content |-> WithFinalNL(body)])]
    ELSE [primary |->
              <<FM, NL>>
              \o <<"name", KeySep>> \o meta.display_name \o <<NL>>
              \o <<"description", KeySep>> \o meta.description \o <<NL>>
              \o (IF provider = "gemini" THEN <<"kind", KeySep, "local", NL>> ELSE <<>>)
              \o (IF model_allowed THEN <<"model", KeySep>> \o meta.model \o <<NL>> ELSE <<>>)
              \o (IF ~meta.tools.some THEN <<>>
                  ELSE IF provider = "gemini"
                  THEN <<"tools", KeyOpen, NL>>
                       \o ToolItems(SplitOn(map_tools(provider, meta.tools.v), <<",", " ">>, <<>>))
                  ELSE <<"tools", KeySep>> \o meta.tools.v \o <<NL>>)
              \o <<"source", KeySep>> \o meta.source \o <<NL>>
              \o <<FM, NL>>
              \o WithFinalNL(body),
          prompt_file |-> None]

----------------------------------------------------------------------------
(* The destination directory: [dir |-> it exists, files |-> path -> entry] *)
(* An entry is a regular file or a symbolic link; content is what reading  *)
(* the path returns (for a link, the content of the file it points to);    *)
(* a file that is not valid UTF-8 text cannot be read to a string.         *)

EmptyFiles == [p \in {} |-> 0]
NoDir == [dir |-> FALSE, files |-> EmptyFiles]
EmptyDir == [dir |-> TRUE, files |-> EmptyFiles]

RegularFile(content) ==
    [kind |-> "file", dangling |-> FALSE, utf8 |-> TRUE, content |-> content]
BinaryFile == [kind |-> "file", dangling |-> FALSE, utf8 |-> FALSE, content |-> <<>>]
SymlinkTo(content) ==
    [kind |-> "symlink", dangling |-> FALSE, utf8 |-> TRUE, content |-> content]
DanglingSymlink == [kind |-> "symlink", dangling |-> TRUE, utf8 |-> TRUE, content |-> <<>>]

\* A faulty is_symlink: only a broken link is reported
is_symlink_broken(d, path) ==
    path \in DOMAIN d.files /\ d.files[path].kind = "symlink" /\ d.files[path].dangling

\* Path::is_symlink
is_symlink(d, path) == path \in DOMAIN d.files /\ d.files[path].kind = "symlink"

\* Path::exists (follows links)
exists(d, path) == path \in DOMAIN d.files /\ ~d.files[path].dangling

\* std::fs::read_to_string of an existing path: Ok(content), or Err
readable(d, path) == d.files[path].utf8
read_to_string(d, path) == d.files[path].content

\* A directory a person has made inside the destination; reading it as a
\* file and writing to it fail
DirectoryEntry == [kind |-> "dir", dangling |-> FALSE, utf8 |-> FALSE, content |-> <<>>]
is_directory(d, path) == path \in DOMAIN d.files /\ d.files[path].kind = "dir"

\* std::fs::create_dir_all(dst_dir) then std::fs::write(path, content):
\* writing to a link writes the file it points to
fs_write(d, path, content) ==
    [dir |-> TRUE,
     files |-> (path :> (IF is_symlink(d, path) THEN SymlinkTo(content)
                         ELSE RegularFile(content))) @@ d.files]

\* std::fs::remove_file (removes a link, not its target)
fs_remove(d, path) ==
    [d EXCEPT !.files = [p \in DOMAIN d.files \ {path} |-> d.files[p]]]

\* dst_dir.join(format!("{name}.{ext}"))
ArtifactPath(name, ext) == name \o <<".", ext>>

----------------------------------------------------------------------------
(* Deploy engine  (deploy/mod.rs) *)

\* A faulty deploy_agent: the companion file is not written
WriteOutput_primary_only(d, out_path, output, dry_run) ==
    IF dry_run THEN [result |-> "Deployed", dst |-> d, writes |-> <<>>]
    ELSE [result |-> "Deployed", dst |-> fs_write(d, out_path, output.primary),
          writes |-> <<out_path>>]

\* The writes of deploy_agent (lines 211-221) for a rendered output
WriteOutput(d, out_path, output, dry_run) ==
    IF dry_run THEN [result |-> "Deployed", dst |-> d, writes |-> <<>>]
    ELSE IF output.prompt_file.some
    THEN Bind(fs_write(d, out_path, output.primary), LAMBDA d1 :
             IF is_directory(d1, output.prompt_file.v.name)
             THEN [result |-> "Err", dst |-> d1, writes |-> <<out_path>>]
             ELSE [result |-> "Deployed",
                   dst |-> fs_write(d1, output.prompt_file.v.name,
                                    output.prompt_file.v.content),
                   writes |-> <<out_path, output.prompt_file.v.name>>])
    ELSE [result |-> "Deployed", dst |-> fs_write(d, out_path, output.primary),
          writes |-> <<out_path>>]

\* A faulty deploy_agent: the ownership check comes before the symlink
\* check
deploy_agent_owner_first(content, filename, d, provider, config, dry_run, source_prefix) ==
    IF IsTemplate(filename) THEN [result |-> "SkippedTemplate", dst |-> d, writes |-> <<>>]
    ELSE Bind(extract_agent_meta(content, filename, provider, config, source_prefix),
              LAMBDA meta :
    IF ~meta.some THEN [result |-> "SkippedNoName", dst |-> d, writes |-> <<>>]
    ELSE IF ~validate_agent_name(meta.v.name) THEN [result |-> "Err", dst |-> d, writes |-> <<>>]
    ELSE LET out_path == ArtifactPath(meta.v.name, agent_extension(provider)) IN
    IF exists(d, out_path) /\ ~readable(d, out_path)
    THEN [result |-> "Err", dst |-> d, writes |-> <<>>]
    ELSE IF exists(d, out_path) /\ ~is_synced_from(read_to_string(d, out_path), filename)
    THEN [result |-> "SkippedUserOwned", dst |-> d, writes |-> <<>>]
    ELSE IF is_symlink(d, out_path) THEN [result |-> "Err", dst |-> d, writes |-> <<>>]
    ELSE Bind(is_model_whitelisted(config, provider, meta.v.model), LAMBDA model_allowed :
         Bind(fm_body(content), LAMBDA body :
         Bind(format_agent_output(meta.v, body, provider, model_allowed), LAMBDA output :
             WriteOutput(d, out_path, output, dry_run)))))

\* deploy_agent : [result, dst, writes]; result "Err" is the error channel,
\* writes are the paths written, in order
deploy_agent(content, filename, d, provider, config, dry_run, source_prefix) ==
    IF IsTemplate(filename) THEN [result |-> "SkippedTemplate", dst |-> d, writes |-> <<>>]
    ELSE Bind(extract_agent_meta(content, filename, provider, config, source_prefix),
              LAMBDA meta :
    IF ~meta.some THEN [result |-> "SkippedNoName", dst |-> d, writes |-> <<>>]
    ELSE IF ~validate_agent_name(meta.v.name) THEN [result |-> "Err", dst |-> d, writes |-> <<>>]
    ELSE LET out_path == ArtifactPath(meta.v.name, agent_extension(provider)) IN
    IF is_symlink(d, out_path) THEN [result |-> "Err", dst |-> d, writes |-> <<>>]
    ELSE IF exists(d, out_path) /\ ~readable(d, out_path)
    THEN [result |-> "Err", dst |-> d, writes |-> <<>>]
    ELSE IF exists(d, out_path) /\ ~is_synced_from(read_to_string(d, out_path), filename)
    THEN [result |-> "SkippedUserOwned", dst |-> d, writes |-> <<>>]
    ELSE Bind(is_model_whitelisted(config, provider, meta.v.model), LAMBDA model_allowed :
         Bind(fm_body(content), LAMBDA body :
         Bind(format_agent_output(meta.v, body, provider, model_allowed), LAMBDA output :
             WriteOutput(d, out_path, output, dry_run)))))

\* path.extension() == "md"
IsMd(filename) == Len(filename) >= 2 /\ Last(filename) = ".md"

\* File names of the model, in the order files.sort_by_key(file_name) puts
\* them (byte order)
FAlt == <<"Alt", ".md">>
FDev == <<"Dev", ".md">>
FOps == <<"Ops", ".md">>
FTemplate == <<"Template", "Dev", ".md">>
FUnderTemplate == <<"_Template", "Ops", ".md">>
FNotes == <<"notes", ".txt">>
FilenameOrder == <<FAlt, FDev, FOps, FTemplate, FUnderTemplate, FNotes>>

\* A faulty deploy_agents_from_dir: the extension filter is missing
SortedMdFiles_unfiltered(s) ==
    SelectSeq(FilenameOrder, LAMBDA f : f \in DOMAIN s.files)

SortedMdFiles(s) ==
    SelectSeq(FilenameOrder, LAMBDA f : f \in DOMAIN s.files /\ IsMd(f))

\* A faulty loop of deploy_agents_from_dir: after an error the files that
\* follow are still deployed
RECURSIVE DeployLoop_keep_going(_, _, _, _, _, _, _, _)
DeployLoop_keep_going(files, s, d, prov, cfg, dry_run, prefix, acc) ==
    IF files = <<>>
    THEN [ok |-> TRUE, results |-> acc.results, dst |-> d, writes |-> acc.writes]
    ELSE LET filename == Head(files) IN
         Bind(deploy_agent(s.files[filename], filename, d, prov, cfg, dry_run, prefix),
              LAMBDA r :
            IF r.result = "Err"
            THEN Bind(DeployLoop_keep_going(Tail(files), s, r.dst, prov, cfg, dry_run,
                                            prefix, acc),
                      LAMBDA rest : [ok |-> FALSE, results |-> <<>>, dst |-> rest.dst,
                                     writes |-> rest.writes])
            ELSE Bind([results |-> Append(acc.results, <<filename, r.result>>),
                       writes |-> acc.writes \o r.writes],
                      LAMBDA acc1 :
                          DeployLoop_keep_going(Tail(files), s, r.dst, prov, cfg,
                                                dry_run, prefix, acc1)))

\* The loop of deploy_agents_from_dir: `?` returns at the first error
RECURSIVE DeployLoop(_, _, _, _, _, _, _, _)
DeployLoop(files, s, d, prov, cfg, dry_run, prefix, acc) ==
    IF files = <<>>
    THEN [ok |-> TRUE, results |-> acc.results, dst |-> d, writes |-> acc.writes]
    ELSE LET filename == Head(files) IN
         Bind(deploy_agent(s.files[filename], filename, d, prov, cfg, dry_run, prefix),
              LAMBDA r :
            IF r.result = "Err"
            THEN [ok |-> FALSE, results |-> <<>>, dst |-> r.dst, writes |-> acc.writes]
            ELSE Bind([results |-> Append(acc.results, <<filename, r.result>>),
                       writes |-> acc.writes \o r.writes],
                      LAMBDA acc1 :
                          DeployLoop(Tail(files), s, r.dst, prov, cfg, dry_run, prefix, acc1)))

\* deploy_agents_from_dir : [ok, results, dst, writes]
deploy_agents_from_dir(s, d, prov, cfg, dry_run, prefix) ==
    IF ~s.dir THEN [ok |-> TRUE, results |-> <<>>, dst |-> d, writes |-> <<>>]
    ELSE Bind(SortedMdFiles(s), LAMBDA files :
             DeployLoop(files, s, d, prov, cfg, dry_run, prefix,
                        [results |-> <<>>, writes |-> <<>>]))

----------------------------------------------------------------------------
(* Manifest  (manifest/mod.rs): <dst>/.manifest, a YAML mapping from module *)
(* name to the list of identifiers the module installed                     *)

MANIFEST_FILE == <<".manifest">>

ModCouncil == <<"forge-council">>
ModOther == <<"forge-other">>
\* BTreeMap iteration order of the module names of the model
ModuleOrder == <<ModCouncil, ModOther>>

ListItem == "- "
EmptyQuoted == "''"

\* A string scalar as serde_yaml writes it: the empty string is quoted
YamlScalar(entry) == IF entry = <<>> THEN <<EmptyQuoted>> ELSE entry

\* A string scalar as serde_yaml reads it
YamlScalarValue(text) == IF text = <<EmptyQuoted>> THEN <<>> ELSE text

RECURSIVE ManifestItems(_)
ManifestItems(entries) ==
    IF entries = <<>> THEN <<>>
    ELSE <<ListItem>> \o YamlScalar(Head(entries)) \o <<NL>>
         \o ManifestItems(Tail(entries))

\* serde_yaml::to_string(&map)
RECURSIVE ManifestToYaml(_, _)
ManifestToYaml(map, modules) ==
    IF modules = <<>> THEN <<>>
    ELSE (IF Head(modules) \in DOMAIN map
          THEN Head(modules) \o <<KeyOpen, NL>> \o ManifestItems(map[Head(modules)])
          ELSE <<>>)
         \o ManifestToYaml(map, Tail(modules))

\* serde_yaml::from_str::<BTreeMap<String, Vec<String>>> over the lines:
\* acc is [ok, map, key]
RECURSIVE ManifestFromLines(_, _)
ManifestFromLines(lines, acc) ==
    IF lines = <<>> \/ ~acc.ok THEN acc
    ELSE LET l == Head(lines) IN
         IF l = <<>> THEN ManifestFromLines(Tail(lines), acc)
         ELSE IF Len(l) >= 2 /\ Last(l) = KeyOpen /\ Head(l) # ListItem
         THEN Bind([ok |-> TRUE, map |-> (Front(l) :> <<>>) @@ acc.map,
                    key |-> Some(Front(l))],
                   LAMBDA acc1 : ManifestFromLines(Tail(lines), acc1))
         ELSE IF Len(l) >= 2 /\ Head(l) = ListItem /\ acc.key.some
         THEN Bind([acc EXCEPT !.map = (acc.key.v :> Append(acc.map[acc.key.v],
                                                            YamlScalarValue(Tail(l))))
                                       @@ acc.map],
                   LAMBDA acc1 : ManifestFromLines(Tail(lines), acc1))
         ELSE [acc EXCEPT !.ok = FALSE]

\* The parsed manifest of a destination, the empty mapping when the file is
\* missing or does not parse
ManifestMap(d) ==
    IF ~exists(d, MANIFEST_FILE) THEN EmptyFiles
    ELSE IF ~readable(d, MANIFEST_FILE) THEN EmptyFiles
    ELSE Bind(Lines(read_to_string(d, MANIFEST_FILE)), LAMBDA lines :
         Bind(ManifestFromLines(lines, [ok |-> TRUE, map |-> EmptyFiles, key |-> None]),
              LAMBDA parsed :
                  IF parsed.ok /\ \A m \in DOMAIN parsed.map : parsed.map[m] # <<>>
                  THEN parsed.map ELSE EmptyFiles))

\* manifest::read
manifest_read(d, module) ==
    Bind(ManifestMap(d), LAMBDA map : IF module \in DOMAIN map THEN map[module] ELSE <<>>)

\* A faulty manifest::update: an empty entry list is stored, not removed
manifest_update_keep_empty(d, module, entries) ==
    Bind(ManifestMap(d), LAMBDA old :
    Bind((module :> entries) @@ old, LAMBDA map :
        IF ~d.dir THEN [ok |-> FALSE, dst |-> d]
        ELSE [ok |-> TRUE,
              dst |-> fs_write(d, MANIFEST_FILE, ManifestToYaml(map, ModuleOrder))]))

\* manifest::update : [ok, dst]
manifest_update(d, module, entries) ==
    Bind(ManifestMap(d), LAMBDA old :
    Bind(IF entries = <<>>
         THEN [m \in DOMAIN old \ {module} |-> old[m]]
         ELSE (module :> entries) @@ old, LAMBDA map :
        IF DOMAIN map = {} THEN [ok |-> TRUE, dst |-> fs_remove(d, MANIFEST_FILE)]
        ELSE IF ~d.dir THEN [ok |-> FALSE, dst |-> d]
        ELSE [ok |-> TRUE,
              dst |-> fs_write(d, MANIFEST_FILE, ManifestToYaml(map, ModuleOrder))]))

----------------------------------------------------------------------------
(* Retraction and the install run  (deploy/mod.rs, bin/install-agents.rs) *)

Contains(seq, x) == \E i \in 1..Len(seq) : seq[i] = x

\* Removal of the Codex companion file, when there is one
RemovePrompt(d, name, prov) ==
    IF prov = "codex" /\ exists(d, ArtifactPath(name, "prompt.md"))
    THEN fs_remove(d, ArtifactPath(name, "prompt.md"))
    ELSE d

\* The loop of clean_agents over the source files: acc is [ok, removed, dst];
\* an artifact that cannot be read ends the loop with an error
RECURSIVE CleanLoop(_, _, _, _, _)
CleanLoop(files, s, prov, dry_run, acc) ==
    IF files = <<>> THEN acc
    ELSE LET filename == Head(files)
             content == s.files[filename]
         IN Bind(OrElse(fm_value(content, "name"), fm_value(content, "claude.name")),
                 LAMBDA name :
            LET dst_path == ArtifactPath(name.v, agent_extension(prov)) IN
            IF ~name.some THEN CleanLoop(Tail(files), s, prov, dry_run, acc)
            ELSE IF name.v = <<>> THEN CleanLoop(Tail(files), s, prov, dry_run, acc)
            ELSE IF exists(acc.dst, dst_path) /\ ~readable(acc.dst, dst_path)
            THEN [ok |-> FALSE, removed |-> <<>>, dst |-> acc.dst]
            ELSE IF /\ exists(acc.dst, dst_path)
                    /\ is_synced_from(read_to_string(acc.dst, dst_path), filename)
            THEN Bind([ok |-> TRUE, removed |-> Append(acc.removed, name.v),
                       dst |-> IF dry_run THEN acc.dst
                               ELSE Bind(fs_remove(acc.dst, dst_path), LAMBDA d1 :
                                        RemovePrompt(d1, name.v, prov))],
                      LAMBDA acc1 : CleanLoop(Tail(files), s, prov, dry_run, acc1))
            ELSE CleanLoop(Tail(files), s, prov, dry_run, acc))

\* clean_agents : [ok, removed, dst].  read_dir yields the source files in an
\* order the file system chooses; the file name order is taken, which the
\* set of removed artifacts does not depend on when every read succeeds.
clean_agents(s, d, prov, dry_run) ==
    IF ~s.dir \/ ~d.dir THEN [ok |-> TRUE, removed |-> <<>>, dst |-> d]
    ELSE Bind(SortedMdFiles(s), LAMBDA files :
             CleanLoop(files, s, prov, dry_run, [ok |-> TRUE, removed |-> <<>>, dst |-> d]))

\* A faulty loop of clean_orphaned_agents: the identifiers of the current
\* artifact list are retracted as well
RECURSIVE OrphanLoop_ignore_current(_, _, _, _, _)
OrphanLoop_ignore_current(previous, current_agents, prov, dry_run, acc) ==
    IF previous = <<>> THEN acc
    ELSE LET name == Head(previous)
             path == ArtifactPath(name, agent_extension(prov))
         IN IF ~exists(acc.dst, path)
            THEN OrphanLoop_ignore_current(Tail(previous), current_agents, prov,
                                           dry_run, acc)
            ELSE Bind([removed |-> Append(acc.removed, name),
                       dst |-> IF dry_run THEN acc.dst
                               ELSE Bind(fs_remove(acc.dst, path), LAMBDA d1 :
                                        RemovePrompt(d1, name, prov))],
                      LAMBDA acc1 :
                          OrphanLoop_ignore_current(Tail(previous), current_agents,
                                                    prov, dry_run, acc1))

\* The loop of clean_orphaned_agents over the previous entry
RECURSIVE OrphanLoop(_, _, _, _, _)
OrphanLoop(previous, current_agents, prov, dry_run, acc) ==
    IF previous = <<>> THEN acc
    ELSE LET name == Head(previous)
             path == ArtifactPath(name, agent_extension(prov))
         IN IF Contains(current_agents, name)
            THEN OrphanLoop(Tail(previous), current_agents, prov, dry_run, acc)
            ELSE IF ~exists(acc.dst, path)
            THEN OrphanLoop(Tail(previous), current_agents, prov, dry_run, acc)
            ELSE Bind([removed |-> Append(acc.removed, name),
                       dst |-> IF dry_run THEN acc.dst
                               ELSE Bind(fs_remove(acc.dst, path), LAMBDA d1 :
                                        RemovePrompt(d1, name, prov))],
                      LAMBDA acc1 :
                          OrphanLoop(Tail(previous), current_agents, prov, dry_run, acc1))

\* clean_orphaned_agents : [removed, dst]
clean_orphaned_agents(d, module, current_agents, prov, dry_run) ==
    IF module = <<>> THEN [removed |-> <<>>, dst |-> d]
    ELSE Bind(manifest_read(d, module), LAMBDA previous :
             OrphanLoop(previous, current_agents, prov, dry_run,
                        [removed |-> <<>>, dst |-> d]))

\* The identifiers of the results that are Deployed
RECURSIVE Installed(_, _, _, _, _)
Installed(results, s, prov, cfg, prefix) ==
    IF results = <<>> THEN <<>>
    ELSE LET filename == Head(results)[1] IN
         (IF Head(results)[2] = "Deployed"
          THEN Bind(extract_agent_meta(s.files[filename], filename, prov, cfg, prefix),
                    LAMBDA meta : <<IF meta.some THEN meta.v.name ELSE Front(filename)>>)
          ELSE <<>>)
         \o Installed(Tail(results), s, prov, cfg, prefix)

\* deploy_to_dir : [ok, installed, results, dst]
deploy_to_dir(s, d, prov, cfg, dry_run, prefix) ==
    Bind(deploy_agents_from_dir(s, d, prov, cfg, dry_run, prefix), LAMBDA r :
        [ok |-> r.ok, results |-> r.results, dst |-> r.dst,
         installed |-> Installed(r.results, s, prov, cfg, prefix)])

\* A faulty sync_manifest: the manifest is overwritten before the orphans
\* are reconciled
sync_manifest_update_first(d, module, installed, prov, dry_run) ==
    Bind(IF dry_run THEN d ELSE manifest_update(d, module, installed).dst, LAMBDA d1 :
        clean_orphaned_agents(d1, module, installed, prov, dry_run))

\* sync_manifest : [removed, dst]
\* A faulty sync_manifest: the manifest is updated in a dry run as well
sync_manifest_dry_update(d, module, installed, prov, dry_run) ==
    Bind(clean_orphaned_agents(d, module, installed, prov, dry_run), LAMBDA c :
        [removed |-> c.removed,
         dst |-> manifest_update(c.dst, module, installed).dst])

sync_manifest(d, module, installed, prov, dry_run) ==
    Bind(clean_orphaned_agents(d, module, installed, prov, dry_run), LAMBDA c :
        [removed |-> c.removed,
         dst |-> IF dry_run THEN c.dst ELSE manifest_update(c.dst, module, installed).dst])

RECURSIVE CollectLoop(_, _, _, _, _)
CollectLoop(files, s, prov, cfg, prefix) ==
    IF files = <<>> THEN <<>>
    ELSE Bind(extract_agent_meta(s.files[Head(files)], Head(files), prov, cfg, prefix),
              LAMBDA meta :
                  IF meta.some /\ validate_agent_name(meta.v.name)
                  THEN <<[name |-> meta.v.name, description |-> meta.v.description]>>
                  ELSE <<>>)
         \o CollectLoop(Tail(files), s, prov, cfg, prefix)

collect_codex_entries(s, prov, cfg, prefix) ==
    IF ~s.dir THEN <<>>
    ELSE Bind(SortedMdFiles(s), LAMBDA files : CollectLoop(files, s, prov, cfg, prefix))

\* sync_codex_config : the new config.toml
sync_codex_config(file, s, cfg, prefix, dry_run) ==
    Bind(collect_codex_entries(s, "codex", cfg, prefix), LAMBDA entries :
        write_codex_config_block(file, entries, prefix, dry_run))

\* clean_codex_config_block : the new config.toml
clean_codex_config_block(file, dry_run) ==
    IF ~file.exists THEN file
    ELSE IF ~Contains(file.content, CODEX_BLOCK_BEGIN) THEN file
    ELSE IF dry_run THEN file
    ELSE FileOf(strip_managed_block(file.content, CODEX_BLOCK_BEGIN, CODEX_BLOCK_END))

\* args.src_dir of the invocations of the model
SrcDirArg == <<"agents">>

\* let source_prefix = ... format!("{module_name}/{}", args.src_dir)
RunPrefix(module) == IF module = <<>> THEN <<>> ELSE module \o <<"/">> \o SrcDirArg

\* run, for one destination directory : [code, dst, cfg] and what the steps
\* returned; start is the destination when the deploy pass begins, mid the
\* destination when it has ended
run(s, d, file, prov, cfg, module, clean, dry_run) ==
    IF ~s.dir
    THEN [code |-> 1, dst |-> d, cfg |-> file, cleaned |-> <<>>, results |-> <<>>,
          installed |-> <<>>, previous |-> <<>>, start |-> d, mid |-> d,
          orphans |-> <<>>]
    ELSE
    Bind(RunPrefix(module), LAMBDA prefix :
    Bind(IF clean THEN clean_agents(s, d, prov, dry_run)
         ELSE [ok |-> TRUE, removed |-> <<>>, dst |-> d], LAMBDA c :
    IF ~c.ok
    THEN [code |-> 1, dst |-> c.dst, cfg |-> file, cleaned |-> <<>>, results |-> <<>>,
          installed |-> <<>>, previous |-> <<>>, start |-> c.dst, mid |-> c.dst,
          orphans |-> <<>>]
    ELSE
    Bind(IF clean /\ prov = "codex" THEN clean_codex_config_block(file, dry_run)
         ELSE file, LAMBDA file1 :
    Bind(deploy_to_dir(s, c.dst, prov, cfg, dry_run, prefix), LAMBDA dep :
        IF ~dep.ok
        THEN [code |-> 1, dst |-> dep.dst, cfg |-> file1, cleaned |-> c.removed,
              results |-> <<>>, installed |-> <<>>, previous |-> <<>>,
              start |-> c.dst, mid |-> dep.dst, orphans |-> <<>>]
        ELSE
        Bind(IF module # <<>>
             THEN sync_manifest(dep.dst, module, dep.installed, prov, dry_run)
             ELSE [removed |-> <<>>, dst |-> dep.dst], LAMBDA syn :
            [code |-> 0, dst |-> syn.dst,
             cfg |-> IF prov = "codex"
                     THEN sync_codex_config(file1, s, cfg, prefix, dry_run)
                     ELSE file1,
             cleaned |-> c.removed, results |-> dep.results,
             installed |-> dep.installed,
             previous |-> manifest_read(dep.dst, module), start |-> c.dst,
             mid |-> dep.dst,
             orphans |-> syn.removed])))))

----------------------------------------------------------------------------
(* Inputs of the managed-block operations *)

\* Characters a pre-existing config.toml is made of
CfgAlphabet == {NL, CR, CODEX_BLOCK_BEGIN, CODEX_BLOCK_END, "x"}

NameDev == <<"D", "e", "v">>
NameOps == <<"O", "p", "s">>

\* CodexConfigEntry values: a plain description, one that needs escaping,
\* and a multi-line description (a YAML block scalar) with a line that
\* reads like the end delimiter.
EntryDev == [name |-> NameDev, description |-> <<"Developer">>]
EntryOps == [name |-> NameOps, description |-> <<"say ", "\"", "hi", "\"", " ", "\\">>]
EntryMultiline ==
    [name |-> NameDev, description |-> <<"x", NL, CODEX_BLOCK_END, NL, "y">>]

EntryLists == {<<>>, <<EntryDev>>, <<EntryDev, EntryOps>>, <<EntryMultiline>>}

PrefixNone == <<>>
PrefixCouncil == <<"forge-council", "/", "agents">>
SourcePrefixes == {PrefixNone, PrefixCouncil}

NoCfgOp == [op |-> "none", entries |-> <<>>, prefix |-> <<>>, dry |-> FALSE,
            pre |-> AbsentFile, again |-> FALSE]

----------------------------------------------------------------------------
(* Operations on config.toml *)

NoOp == [op |-> "none"]

InitCfg ==
    /\ cfgFile \in {AbsentFile} \cup {FileOf(c) : c \in SeqsUpTo(CfgAlphabet, MaxCfgLen)}
    /\ cfgLast = NoCfgOp
    /\ calls = 0
    /\ theProvider = "codex"
    /\ theConfig = VNull
    /\ thePrefix = PrefixNone
    /\ module_name = <<>>
    /\ src = [dir |-> FALSE, files |-> EmptyFiles]
    /\ dst = NoDir
    /\ edited = {}
    /\ last = NoOp

WriteCodexConfigBlock ==
    /\ calls < MaxCalls
    /\ \E entries \in EntryLists, prefix \in SourcePrefixes, dry_run \in BOOLEAN :
          /\ cfgFile' = write_codex_config_block(cfgFile, entries, prefix, dry_run)
          /\ cfgLast' = [op |-> "write", entries |-> entries, prefix |-> prefix,
                         dry |-> dry_run, pre |-> cfgFile,
                         again |-> /\ cfgLast.op = "write"
                                   /\ ~cfgLast.dry
                                   /\ cfgLast.entries = entries
                                   /\ cfgLast.prefix = prefix]
    /\ calls' = calls + 1
    /\ UNCHANGED <<paramVars, src, dst, edited, last>>

NextCfg == WriteCodexConfigBlock

SpecCfg == InitCfg /\ [][NextCfg]_vars

\* One call of clean_codex_config_block; afterWrite says that the call
\* before it was a real write_codex_config_block, written holds its entries
CleanCodexConfigBlock ==
    /\ calls < MaxCalls
    /\ \E dry_run \in BOOLEAN :
          /\ cfgFile' = clean_codex_config_block(cfgFile, dry_run)
          /\ cfgLast' = [op |-> "clean", entries |-> <<>>, prefix |-> <<>>,
                         dry |-> dry_run, pre |-> cfgFile, again |-> FALSE,
                         afterWrite |-> cfgLast.op = "write" /\ ~cfgLast.dry,
                         written |-> IF cfgLast.op = "write" THEN cfgLast.entries
                                     ELSE <<>>]
    /\ calls' = calls + 1
    /\ UNCHANGED <<paramVars, src, dst, edited, last>>

NextCfgClean == WriteCodexConfigBlock \/ CleanCodexConfigBlock

SpecCfgClean == InitCfg /\ [][NextCfgClean]_vars

----------------------------------------------------------------------------
(* Inputs of the deploy engine *)

NameLower == <<"d", "e", "v">>
NameEvil == <<".", ".", "/", "e", "v", "i", "l">>

\* A source document: frontmatter with name and description, then the body
Doc(name_key, name, description, body) ==
    <<FM, NL, name_key, KeySep>> \o name \o <<NL, "description", KeySep>>
    \o description \o <<NL, FM, NL>> \o body

DocDev == Doc("name", NameDev, <<"Developer">>, <<"You build.", NL>>)
DocDevTwin == Doc("name", NameDev, <<"Second developer">>, <<"You build too.", NL>>)
DocOps ==
    <<FM, NL, "claude.name", KeySep>> \o NameOps
    \o <<NL, "claude.model", KeySep, "opus", NL, "claude.tools", KeyOpen, NL,
         ItemMark, "Read", NL, ItemMark, "Bash", NL, FM, NL, "You operate.">>
DocNoName == <<FM, NL, "description", KeySep, "Nameless", NL, FM, NL, "Text", NL>>
DocEvil == Doc("name", NameEvil, <<"Escapes">>, <<"You escape.", NL>>)
DocLower == Doc("name", NameLower, <<"Lower case">>, <<"You whisper.", NL>>)

SourceDir(files) == [dir |-> TRUE, files |-> files]
NoSourceDir == [dir |-> FALSE, files |-> EmptyFiles]

SrcCouncil ==
    SourceDir((FDev :> DocDev) @@ (FOps :> DocOps) @@ (FTemplate :> DocDev)
              @@ (FNotes :> <<"notes", NL>>))
SrcTwins == SourceDir((FAlt :> DocDevTwin) @@ (FDev :> DocDev))
SrcEvil == SourceDir((FAlt :> DocDev) @@ (FDev :> DocEvil))
SrcLower == SourceDir((FDev :> DocLower) @@ (FOps :> DocNoName))
SrcOpsOnly == SourceDir(FOps :> DocOps)
\* Alt.md declares the identifier of Dev.md, and its body opens with the
\* legacy marker line that names Dev.md
DocDevRelic ==
    Doc("name", NameDev, <<"Relic">>, <<LegacyMarker>> \o FDev \o <<NL, "old body", NL>>)
SrcRelic == SourceDir((FAlt :> DocDevRelic) @@ (FDev :> DocDev))
\* A document with an invalid identifier between two that deploy
SrcEvilMiddle == SourceDir((FAlt :> DocDev) @@ (FDev :> DocEvil) @@ (FOps :> DocOps))

\* Template files whose documents have an invalid identifier and none
SrcTemplates == SourceDir((FTemplate :> DocEvil) @@ (FUnderTemplate :> DocNoName))

SrcDirs ==
    <<SrcCouncil, SrcTwins, SrcEvil, SrcLower, SrcRelic, SrcTemplates, SrcEvilMiddle,
      NoSourceDir>>

\* A layered configuration with agent overrides, provider tiers, whitelists
ConfigCouncil ==
    VMap((<<"agents">> :>
            VMap((NameDev :> VMap((<<"model">> :> VStr(<<"strong">>))
                                  @@ (<<"tools">> :> VStr(<<"Read", ",", " ", "Grep">>))))))
         @@ (<<"providers">> :>
            VMap((<<"claude">> :>
                    VMap(<<"models">> :> VSeq(<<VStr(<<"sonnet">>)>>)))
                 @@ (<<"gemini">> :>
                    VMap(<<"models">> :> VMap(<<"strong">> :> VStr(<<"gemini-pro">>))))
                 @@ (<<"codex">> :>
                    VMap((<<"strong">> :> VStr(<<"gpt-strong">>))
                         @@ (<<"whitelist">> :> VSeq(<<VStr(<<"gpt-strong">>)>>))
                         @@ (<<"reasoning_effort">> :>
                                VMap(<<"strong">> :> VStr(<<"high">>))))))))

\* The invocations of the model: configuration and provenance prefix
Invocations == <<[config |-> VNull, prefix |-> PrefixNone],
                 [config |-> ConfigCouncil, prefix |-> PrefixCouncil]>>

\* What a person may put at an artifact path
UserPlain == <<"my own notes", NL>>
UserLegacy == <<LegacyMarker>> \o FDev \o <<NL, "old body", NL>>
UserForeign ==
    <<FM, NL, "name", KeySep, "Dev", NL, "source", KeySep, "Other", ".md", NL,
      FM, NL, "theirs", NL>>

UserEntries == <<RegularFile(UserPlain), RegularFile(UserLegacy), RegularFile(UserForeign),
                 BinaryFile, SymlinkTo(UserPlain), DanglingSymlink>>

UserPaths(prov) == {ArtifactPath(NameDev, agent_extension(prov)),
                    ArtifactPath(NameLower, agent_extension(prov))}

----------------------------------------------------------------------------
(* Operations of the deploy engine on a destination directory *)

InitDeploy ==
    /\ cfgFile = AbsentFile
    /\ cfgLast = NoCfgOp
    /\ calls = 0
    /\ theProvider \in Providers
    /\ \E i \in 1..Len(Invocations) :
          /\ theConfig = Invocations[i].config
          /\ thePrefix = Invocations[i].prefix
    /\ module_name = <<>>
    /\ \E i \in 1..Len(SrcDirs) : src = SrcDirs[i]
    /\ dst \in {NoDir, EmptyDir}
    /\ edited = {}
    /\ last = NoOp

\* One call of deploy_agent on a file of the source directory
DeployAgent ==
    /\ calls < MaxSteps
    /\ \E filename \in DOMAIN src.files, dry_run \in BOOLEAN :
          \E r \in {deploy_agent(src.files[filename], filename, dst, theProvider,
                                theConfig, dry_run, thePrefix)} :
             /\ dst' = r.dst
             /\ last' = [op |-> "deploy_agent", filename |-> filename, dry |-> dry_run,
                         pre |-> dst, result |-> r.result, writes |-> r.writes,
                         meta |-> extract_agent_meta(src.files[filename], filename,
                                                     theProvider, theConfig, thePrefix),
                         again |-> /\ last.op = "deploy_agent"
                                   /\ last.filename = filename
                                   /\ ~last.dry
                                   /\ last.result = "Deployed"]
    /\ calls' = calls + 1
    /\ UNCHANGED <<cfgVars, paramVars, src, edited>>

\* One call of deploy_agents_from_dir; other is what the call with the
\* opposite dry_run flag returns on the same inputs
DeployAgentsFromDir ==
    /\ calls < MaxSteps
    /\ \E dry_run \in BOOLEAN :
          \E r \in {deploy_agents_from_dir(src, dst, theProvider, theConfig,
                                            dry_run, thePrefix)},
             o \in {deploy_agents_from_dir(src, dst, theProvider, theConfig,
                                            ~dry_run, thePrefix)} :
             /\ dst' = r.dst
             /\ last' = [op |-> "deploy_agents_from_dir", dry |-> dry_run, pre |-> dst,
                         ok |-> r.ok, results |-> r.results, writes |-> r.writes,
                         other |-> [ok |-> o.ok, results |-> o.results]]
    /\ calls' = calls + 1
    /\ UNCHANGED <<cfgVars, paramVars, src, edited>>

\* A person creates or replaces a file (or link) in the destination
HumanEdit ==
    /\ calls < MaxSteps
    /\ \E path \in UserPaths(theProvider), i \in 1..Len(UserEntries) :
          /\ dst' = [dir |-> TRUE, files |-> (path :> UserEntries[i]) @@ dst.files]
          /\ last' = [op |-> "human", path |-> path, pre |-> dst]
    /\ calls' = calls + 1
    /\ UNCHANGED <<cfgVars, paramVars, src, edited>>

\* One call of clean_agents; other is what the call with the opposite
\* dry_run flag returns on the same inputs
CleanAgents ==
    /\ calls < MaxSteps
    /\ \E dry_run \in BOOLEAN :
          \E r \in {clean_agents(src, dst, theProvider, dry_run)} :
             /\ dst' = r.dst
             /\ last' = [op |-> "clean_agents", dry |-> dry_run, pre |-> dst,
                         ok |-> r.ok, removed |-> r.removed,
                         other |-> Bind(clean_agents(src, dst, theProvider, ~dry_run),
                                        LAMBDA o : [ok |-> o.ok, removed |-> o.removed])]
    /\ calls' = calls + 1
    /\ UNCHANGED <<cfgVars, paramVars, src, edited>>

NextDeploy == DeployAgent \/ DeployAgentsFromDir \/ HumanEdit \/ CleanAgents

SpecDeploy == InitDeploy /\ [][NextDeploy]_vars

\* The provenance prefixes of two modules that ship a file of the same name
PrefixOther == <<"forge-other", "/", "agents">>
Prefixes == <<PrefixNone, PrefixCouncil, PrefixOther>>

\* The deploy engine on a destination that holds the artifact a deploy of
\* Dev.md under one of the prefixes has written, run under any of them
InitPrefix ==
    /\ cfgFile = AbsentFile
    /\ cfgLast = NoCfgOp
    /\ calls = 0
    /\ theProvider \in Providers
    /\ theConfig \in {VNull, ConfigCouncil}
    /\ \E p \in 1..Len(Prefixes) : thePrefix = Prefixes[p]
    /\ module_name = <<>>
    /\ src = SrcCouncil
    /\ \E q \in 1..Len(Prefixes) :
          dst = deploy_agent(DocDevTwin, FDev, EmptyDir, theProvider, VNull, FALSE,
                             Prefixes[q]).dst
    /\ edited = {}
    /\ last = NoOp

SpecPrefix == InitPrefix /\ [][NextDeploy]_vars

\* What the destination holds at the artifact path of Dev and at the path
\* of its companion file before the deploy: nothing, or what a person has
\* put there
PrimaryEntries == UserEntries
CompanionEntries ==
    <<RegularFile(UserPlain), SymlinkTo(UserPlain), DanglingSymlink, DirectoryEntry>>

EntryAt(path, entries, i) == IF i = 0 THEN EmptyFiles ELSE path :> entries[i]

InitCompanion ==
    /\ cfgFile = AbsentFile
    /\ cfgLast = NoCfgOp
    /\ calls = 0
    /\ theProvider \in Providers
    /\ \E i \in 1..Len(Invocations) :
          /\ theConfig = Invocations[i].config
          /\ thePrefix = Invocations[i].prefix
    /\ module_name = <<>>
    /\ src = SrcCouncil
    /\ \E p \in 0..Len(PrimaryEntries), c \in 0..Len(CompanionEntries) :
          dst = [dir |-> TRUE,
                 files |-> EntryAt(ArtifactPath(NameDev, agent_extension(theProvider)),
                                   PrimaryEntries, p)
                           @@ EntryAt(ArtifactPath(NameDev, "prompt.md"),
                                      CompanionEntries, c)]
    /\ edited = {}
    /\ last = NoOp

NextCompanion == DeployAgent

SpecCompanion == InitCompanion /\ [][NextCompanion]_vars

----------------------------------------------------------------------------
(* Retraction on destinations that deploys and manifest updates have left *)

\* Destinations before the manifest is added: none, an empty one, the one
\* a pass over the council sources leaves, that one after a person has
\* replaced Dev's artifact, and the one the deploy of the relic document
\* leaves
CleanBases(prov) ==
    <<NoDir,
      EmptyDir,
      deploy_agents_from_dir(SrcCouncil, EmptyDir, prov, VNull, FALSE, PrefixNone).dst,
      fs_write(deploy_agents_from_dir(SrcCouncil, EmptyDir, prov, VNull, FALSE,
                                      PrefixNone).dst,
               ArtifactPath(NameDev, agent_extension(prov)), UserPlain),
      deploy_agent(DocDevRelic, FAlt, EmptyDir, prov, VNull, FALSE, PrefixNone).dst>>

\* The manifest put on top: none, entries written by manifest::update, a
\* file that does not parse, a file that is no text
WithManifest(d, n) ==
    IF n = 1 THEN d
    ELSE IF n = 2 THEN manifest_update(d, ModCouncil, <<NameDev>>).dst
    ELSE IF n = 3 THEN manifest_update(d, ModCouncil, <<NameDev, NameOps>>).dst
    ELSE IF n = 4 THEN manifest_update(d, ModCouncil, <<NameDev, NameDev>>).dst
    ELSE IF n = 5
    THEN manifest_update(manifest_update(d, ModOther, <<NameOps>>).dst,
                         ModCouncil, <<NameDev>>).dst
    ELSE IF n = 6 THEN fs_write(d, MANIFEST_FILE, <<"garbage", NL>>)
    ELSE [dir |-> TRUE, files |-> (MANIFEST_FILE :> BinaryFile) @@ d.files]
ManifestChoices == 1..7

\* current_agents handed to clean_orphaned_agents
CurrentLists == <<<<>>, <<NameDev>>, <<NameOps>>, <<NameDev, NameOps>>>>

CleanSrcs == <<SrcCouncil, SrcRelic>>

InitClean ==
    /\ cfgFile = AbsentFile
    /\ cfgLast = NoCfgOp
    /\ calls = 0
    /\ theProvider \in Providers
    /\ theConfig = VNull
    /\ thePrefix = PrefixNone
    /\ module_name \in {<<>>, ModCouncil}
    /\ \E i \in 1..Len(CleanSrcs) : src = CleanSrcs[i]
    /\ \E b \in 1..Len(CleanBases(theProvider)), n \in ManifestChoices :
          dst = WithManifest(CleanBases(theProvider)[b], n)
    /\ edited = {}
    /\ last = NoOp

\* One call of clean_orphaned_agents; other is what the call with the
\* opposite dry_run flag returns on the same inputs
CleanOrphanedAgents ==
    /\ calls < MaxSteps
    /\ \E dry_run \in BOOLEAN, c \in 1..Len(CurrentLists) :
          \E r \in {clean_orphaned_agents(dst, module_name, CurrentLists[c],
                                           theProvider, dry_run)} :
             /\ dst' = r.dst
             /\ last' = [op |-> "clean_orphaned_agents", dry |-> dry_run, pre |-> dst,
                         current |-> CurrentLists[c], ok |-> TRUE,
                         removed |-> r.removed,
                         other |-> [ok |-> TRUE,
                                    removed |-> clean_orphaned_agents(
                                        dst, module_name, CurrentLists[c],
                                        theProvider, ~dry_run).removed]]
    /\ calls' = calls + 1
    /\ UNCHANGED <<cfgVars, paramVars, src, edited>>

NextClean == CleanAgents \/ CleanOrphanedAgents

SpecClean == InitClean /\ [][NextClean]_vars

----------------------------------------------------------------------------
(* Install runs on one destination directory, source changes, human edits *)

InstallSrcs == <<SrcCouncil, SrcOpsOnly, SrcEvil>>

InitInstall ==
    /\ cfgFile = AbsentFile
    /\ cfgLast = NoCfgOp
    /\ calls = 0
    /\ theProvider \in Providers
    /\ theConfig = VNull
    /\ module_name \in {<<>>, ModCouncil}
    /\ thePrefix = RunPrefix(module_name)
    /\ \E i \in 1..Len(InstallSrcs) : src = InstallSrcs[i]
    /\ dst = NoDir
    /\ edited = {}
    /\ last = NoOp

\* One invocation of install-agents with --dst
InstallRun ==
    /\ calls < MaxInstallSteps
    /\ \E clean \in BOOLEAN, dry_run \in BOOLEAN :
          \E r \in {run(src, dst, cfgFile, theProvider, theConfig, module_name,
                         clean, dry_run)} :
             /\ dst' = r.dst
             /\ cfgFile' = r.cfg
             /\ last' = [op |-> "run", clean |-> clean, dry |-> dry_run, pre |-> dst,
                         code |-> r.code, cleaned |-> r.cleaned, results |-> r.results,
                         installed |-> r.installed, previous |-> r.previous,
                         start |-> r.start, mid |-> r.mid, orphans |-> r.orphans]
    /\ calls' = calls + 1
    /\ UNCHANGED <<cfgLast, paramVars, src, edited>>

\* The module's source directory changes between runs
SourceEdit ==
    /\ calls < MaxInstallSteps
    /\ \E i \in 1..Len(InstallSrcs) :
          /\ InstallSrcs[i] # src
          /\ src' = InstallSrcs[i]
    /\ last' = [op |-> "source"]
    /\ calls' = calls + 1
    /\ UNCHANGED <<cfgVars, paramVars, dst, edited>>

\* A primary artifact: a regular file <identifier>.md or <identifier>.toml
IsPrimaryArtifact(d, path) ==
    /\ path \in DOMAIN d.files
    /\ d.files[path].kind = "file"
    /\ d.files[path].utf8
    /\ Last(path) = agent_extension(theProvider)

\* A person rewrites a deployed primary artifact and drops its marker
HumanRewrite ==
    /\ calls < MaxInstallSteps
    /\ \E path \in DOMAIN dst.files :
          /\ IsPrimaryArtifact(dst, path)
          /\ dst.files[path].content # UserPlain
          /\ dst' = fs_write(dst, path, UserPlain)
          /\ edited' = edited \cup {path}
          /\ last' = [op |-> "human", path |-> path, pre |-> dst]
    /\ calls' = calls + 1
    /\ UNCHANGED <<cfgVars, paramVars, src>>

NextInstall == InstallRun \/ SourceEdit \/ HumanRewrite

SpecInstall == InitInstall /\ [][NextInstall]_vars

----------------------------------------------------------------------------
(* Operations on the manifest of one destination directory *)

\* Entry lists handed to manifest::update
ManifestEntryLists == <<<<>>, <<NameDev>>, <<NameDev, NameOps>>, <<NameOps>>, <<<<>>>>>>

\* What lies at <dst>/.manifest before the first update: nothing, a file
\* that is no YAML mapping of lists, a file that is no text, a broken link
ManifestBefore ==
    <<EmptyFiles,
      MANIFEST_FILE :> RegularFile(<<"garbage", NL>>),
      MANIFEST_FILE :> RegularFile(ModCouncil \o <<KeyOpen, NL>>),
      MANIFEST_FILE :> BinaryFile,
      MANIFEST_FILE :> DanglingSymlink>>

\* recent is the entry list of the most recent update of each module
InitManifest ==
    /\ cfgFile = AbsentFile
    /\ cfgLast = NoCfgOp
    /\ calls = 0
    /\ theProvider = "claude"
    /\ theConfig = VNull
    /\ thePrefix = PrefixNone
    /\ module_name = <<>>
    /\ src = NoSourceDir
    /\ \E i \in 1..Len(ManifestBefore) : dst = [dir |-> TRUE, files |-> ManifestBefore[i]]
    /\ edited = {}
    /\ last = [op |-> "none", updates |-> 0,
               recent |-> [m \in {ModCouncil, ModOther} |-> <<>>]]

\* One call of manifest::update
ManifestUpdate ==
    /\ calls < MaxManifestSteps
    /\ \E m \in 1..Len(ModuleOrder), i \in 1..Len(ManifestEntryLists) :
          \E r \in {manifest_update(dst, ModuleOrder[m], ManifestEntryLists[i])} :
             /\ dst' = r.dst
             /\ last' = [op |-> "manifest_update", module |-> ModuleOrder[m],
                         ok |-> r.ok, updates |-> last.updates + 1,
                         recent |-> [last.recent EXCEPT ![ModuleOrder[m]] =
                                        ManifestEntryLists[i]]]
    /\ calls' = calls + 1
    /\ UNCHANGED <<cfgVars, paramVars, src, edited>>

\* One call of manifest::read
ManifestRead ==
    /\ calls < MaxManifestSteps
    /\ \E m \in 1..Len(ModuleOrder) :
          last' = [op |-> "manifest_read", module |-> ModuleOrder[m],
                   result |-> manifest_read(dst, ModuleOrder[m]),
                   updates |-> last.updates, recent |-> last.recent]
    /\ calls' = calls + 1
    /\ UNCHANGED <<cfgVars, paramVars, src, dst, edited>>

NextManifest == ManifestUpdate \/ ManifestRead

SpecManifest == InitManifest /\ [][NextManifest]_vars

----------------------------------------------------------------------------
(* Tier resolution *)

\* Model strings: the two tier words, the default aliases, other models,
\* the empty string
TierNames == <<<<"fast">>, <<"strong">>, DefaultFast, DefaultStrong, <<"haiku">>>>
RequestedModels == TierNames \o <<<<"gpt-5">>, <<>>>>

\* Provider tier pairs: two different models, the same model twice, the
\* global defaults
ProviderTierPairs ==
    <<[fast |-> <<"flash">>, strong |-> <<"pro">>],
      [fast |-> <<"gpt-5">>, strong |-> <<"gpt-5">>],
      [fast |-> DefaultFast, strong |-> DefaultStrong]>>

InitResolve ==
    /\ cfgFile = AbsentFile
    /\ cfgLast = NoCfgOp
    /\ calls = 0
    /\ theProvider = "claude"
    /\ theConfig = VNull
    /\ thePrefix = PrefixNone
    /\ module_name = <<>>
    /\ src = NoSourceDir
    /\ dst = NoDir
    /\ edited = {}
    /\ last = NoOp

\* One call of resolve_model
ResolveModel ==
    /\ calls < MaxResolveCalls
    /\ \E m \in 1..Len(RequestedModels), gf \in 1..Len(TierNames),
          gs \in 1..Len(TierNames), p \in 1..Len(ProviderTierPairs) :
          \E global \in {[fast |-> TierNames[gf], strong |-> TierNames[gs]]} :
             last' = [op |-> "resolve_model", model |-> RequestedModels[m],
                      global |-> global, provider |-> ProviderTierPairs[p],
                      result |-> resolve_model(RequestedModels[m], global,
                                               ProviderTierPairs[p])]
    /\ calls' = calls + 1
    /\ UNCHANGED <<cfgVars, paramVars, src, dst, edited>>

NextResolve == ResolveModel

SpecResolve == InitResolve /\ [][NextResolve]_vars

----------------------------------------------------------------------------
(* The configuration loader and its queries *)

Key(k) == <<k>>
Str(v) == VStr(<<v>>)

\* YAML documents of the model: tiers in the nested and the flat shape, a
\* tier section without usable strings, whitelists in the three places
\* (with entries, empty, not a sequence), scalar conflicts, a null value
DocTiersNested ==
    VMap(Key("shared") :>
            VMap(Key("models") :> VMap((Key("fast") :> Str("haiku"))
                                       @@ (Key("strong") :> Str("opus-4")))))
DocTiersFast ==
    VMap(Key("shared") :> VMap(Key("models") :> VMap(Key("fast") :> Str("flash"))))
DocTiersFlat == VMap(Key("models") :> VMap(Key("strong") :> Str("pro")))
DocTiersUnusable ==
    VMap((Key("shared") :> VMap(Key("models") :> VMap(Key("fast") :> VSeq(<<>>))))
         @@ (Key("models") :> Str("none")))
DocTiersNull == VMap(Key("shared") :> VMap(Key("models") :> VNull))
DocWhitelist ==
    VMap(Key("providers") :>
            VMap(Key("claude") :> VMap(Key("whitelist") :> VSeq(<<Str("opus"), Str("sonnet")>>))))
DocWhitelistEmpty ==
    VMap(Key("providers") :> VMap(Key("claude") :> VMap(Key("whitelist") :> VSeq(<<>>))))
DocWhitelistScalar ==
    VMap(Key("providers") :> VMap(Key("claude") :> VMap(Key("whitelist") :> Str("opus"))))
DocModelsSeq ==
    VMap(Key("providers") :>
            VMap(Key("gemini") :> VMap(Key("models") :> VSeq(<<Str("flash"), VNull>>))))
DocModelsFlat ==
    VMap(Key("codex") :> VMap(Key("models") :> VSeq(<<Str("gpt-5")>>)))
DocScalar == Str("text")

YamlDocs == <<VNull, DocTiersNested, DocTiersFast, DocTiersFlat, DocTiersUnusable,
              DocTiersNull, DocWhitelist, DocWhitelistEmpty, DocWhitelistScalar,
              DocModelsSeq, DocModelsFlat, DocScalar>>

\* The states of one file: 0 missing, 1 unparsable, else a document
FileStates == 0..(Len(YamlDocs) + 1)

FileOfState(filename, n) ==
    IF n = 0 THEN <<>>
    ELSE IF n = 1 THEN filename :> CorruptFile
    ELSE filename :> YamlFile(YamlDocs[n - 1])

\* Models asked about
AskedModels == <<<<"opus">>, <<"flash">>, <<"gpt-5">>, <<"haiku">>, <<>>>>

InitSidecar ==
    /\ cfgFile = AbsentFile
    /\ cfgLast = NoCfgOp
    /\ calls = 0
    /\ theProvider \in Providers
    /\ theConfig = VNull
    /\ thePrefix = PrefixNone
    /\ module_name = <<>>
    /\ src = NoSourceDir
    /\ dst = NoDir
    /\ edited = {}
    /\ last = NoOp

\* SidecarConfig::load on a module root: defaults.yaml and config.yaml in
\* any state, with or without the two .yml files beside them
Load ==
    /\ calls < MaxSidecarSteps
    /\ \E d \in FileStates, c \in FileStates, yml \in BOOLEAN :
          \E root \in {FileOfState("defaults.yaml", d)
                        @@ FileOfState("config.yaml", c)
                        @@ (IF yml THEN ("defaults.yml" :> YamlFile(DocTiersFlat))
                                        @@ ("config.yml" :> YamlFile(DocWhitelistEmpty))
                            ELSE <<>>)} :
             /\ src' = [dir |-> DOMAIN root # {}, files |-> root]
             /\ theConfig' = load(root)
             /\ last' = [op |-> "load", defaults |-> defaults_layer(root),
                         config |-> config_layer(root)]
    /\ calls' = calls + 1
    /\ UNCHANGED <<cfgVars, theProvider, thePrefix, module_name, dst, edited>>

\* config.global_tiers()
GlobalTiers ==
    /\ calls < MaxSidecarSteps
    /\ last' = [op |-> "global_tiers", result |-> global_tiers(theConfig)]
    /\ calls' = calls + 1
    /\ UNCHANGED <<cfgVars, paramVars, src, dst, edited>>

\* config.is_model_whitelisted(provider, model)
IsModelWhitelisted ==
    /\ calls < MaxSidecarSteps
    /\ \E i \in 1..Len(AskedModels) :
          last' = [op |-> "is_model_whitelisted", model |-> AskedModels[i],
                   result |-> is_model_whitelisted(theConfig, theProvider, AskedModels[i])]
    /\ calls' = calls + 1
    /\ UNCHANGED <<cfgVars, paramVars, src, dst, edited>>

NextSidecar == Load \/ GlobalTiers \/ IsModelWhitelisted

SpecSidecar == InitSidecar /\ [][NextSidecar]_vars

----------------------------------------------------------------------------
(* Provider tiers of a configuration tree *)

\* A place of the tree that is not there
Absent == [t |-> "absent"]

\* Tier sections: fast only, both tiers, a fast tier that is not a string,
\* no tier at all
TierMaps(f, s) ==
    <<VMap(Key("fast") :> Str(f)),
      VMap((Key("fast") :> Str(f)) @@ (Key("strong") :> Str(s))),
      VMap((Key("fast") :> VSeq(<<>>)) @@ (Key("strong") :> Str(s))),
      VMap(<<>>)>>

\* What providers.gemini.models, providers.gemini, flat gemini and the
\* global tier section may be.  For providers.gemini a mapping stands for
\* the tier keys beside models.
NestedOptions == <<Absent, VNull, VSeq(<<Str("flash")>>)>> \o TierMaps("nested-fast", "nested-strong")
DirectOptions == <<Absent, VNull, Str("text")>> \o TierMaps("direct-fast", "direct-strong")
FlatOptions == <<Absent, VNull>> \o TierMaps("flat-fast", "flat-strong")
GlobalOptions == <<VMap(<<>>), DocTiersNested, DocTiersFast>>

\* The value at providers.gemini
ProviderValue(nested, direct) ==
    IF direct.t \in {"null", "str"} THEN direct
    ELSE IF direct = Absent /\ nested = Absent THEN Absent
    ELSE VMap((IF nested = Absent THEN <<>> ELSE Key("models") :> nested)
              @@ (IF direct = Absent THEN <<>> ELSE direct.m))

TierConfig(nested, direct, flat, global) ==
    VMap((IF ProviderValue(nested, direct) = Absent THEN <<>>
          ELSE Key("providers") :> VMap(Key("gemini") :> ProviderValue(nested, direct)))
         @@ (IF flat = Absent THEN <<>> ELSE Key("gemini") :> flat)
         @@ global.m)

InitTiers ==
    /\ cfgFile = AbsentFile
    /\ cfgLast = NoCfgOp
    /\ calls = 0
    /\ theProvider \in Providers
    /\ \E n \in 1..Len(NestedOptions), d \in 1..Len(DirectOptions),
          f \in 1..Len(FlatOptions), g \in 1..Len(GlobalOptions) :
          theConfig = TierConfig(NestedOptions[n], DirectOptions[d], FlatOptions[f],
                                 GlobalOptions[g])
    /\ thePrefix = PrefixNone
    /\ module_name = <<>>
    /\ src = NoSourceDir
    /\ dst = NoDir
    /\ edited = {}
    /\ last = [op |-> "config"]

\* config.provider_tiers(provider)
ProviderTiers ==
    /\ last.op = "config"
    /\ last' = [op |-> "provider_tiers", result |-> provider_tiers(theConfig, theProvider)]
    /\ calls' = calls + 1
    /\ UNCHANGED <<cfgVars, paramVars, src, dst, edited>>

NextTiers == ProviderTiers

SpecTiers == InitTiers /\ [][NextTiers]_vars

----------------------------------------------------------------------------
(* Metadata extraction on one document under a configuration *)

\* The legacy claude.model field of the document: none, or a tier
LegacyOptions == <<None, Some(<<"opus">>), Some(<<"fast">>), Some(<<"haiku">>)>>

\* The override agents.Dev.model of the configuration
OverrideOptions == <<Absent, VNull, Str("strong"), Str("fast"), Str("gpt-x")>>

\* Provider sections: none, or tiers for Gemini and a strong tier for Codex
ProviderSections ==
    <<VMap(<<>>),
      VMap(Key("providers") :>
              VMap((Key("gemini") :> VMap((Key("fast") :> Str("gemini-flash"))
                                          @@ (Key("strong") :> Str("gemini-pro"))))
                   @@ (Key("codex") :> VMap(Key("strong") :> Str("gpt-strong")))))>>

MetaDoc(legacy) ==
    <<FM, NL, "name", KeySep>> \o NameDev \o <<NL>>
    \o (IF legacy.some THEN <<"claude.model", KeySep>> \o legacy.v \o <<NL>> ELSE <<>>)
    \o <<FM, NL, "Body.", NL>>

MetaConfig(override, global, sections) ==
    VMap((IF override = Absent THEN <<>>
          ELSE Key("agents") :> VMap(NameDev :> VMap(Key("model") :> override)))
         @@ global.m @@ sections.m)

InitMeta ==
    /\ cfgFile = AbsentFile
    /\ cfgLast = NoCfgOp
    /\ calls = 0
    /\ theProvider \in Providers
    /\ thePrefix = PrefixNone
    /\ module_name = <<>>
    /\ src = NoSourceDir
    /\ dst = NoDir
    /\ edited = {}
    /\ \E o \in 1..Len(OverrideOptions), l \in 1..Len(LegacyOptions),
          g \in 1..Len(GlobalOptions), s \in 1..Len(ProviderSections) :
          /\ theConfig = MetaConfig(OverrideOptions[o], GlobalOptions[g],
                                    ProviderSections[s])
          /\ last = [op |-> "document", content |-> MetaDoc(LegacyOptions[l]),
                     override |-> OverrideOptions[o], legacy |-> LegacyOptions[l]]

\* extract_agent_meta on the document drawn, as Dev.md
ExtractAgentMeta ==
    /\ last.op = "document"
    /\ last' = [op |-> "extract_agent_meta", override |-> last.override,
                legacy |-> last.legacy,
                meta |-> extract_agent_meta(last.content, FDev, theProvider, theConfig,
                                            thePrefix)]
    /\ calls' = calls + 1
    /\ UNCHANGED <<cfgVars, paramVars, src, dst, edited>>

NextMeta == ExtractAgentMeta

SpecMeta == InitMeta /\ [][NextMeta]_vars

----------------------------------------------------------------------------
(* The parser's checks on names and provenance *)

\* Characters of the names tried: letters, a digit, the path characters, a
\* space, a line break
NameAlphabet == {"D", "e", "3", "/", "\\", ".", " ", NL}

\* "D" followed by n times "a"
LongName(n) == <<"D">> \o [i \in 1..n |-> "a"]

\* Names around the upper length limit, and one with a separator in it
LongNames ==
    {LongName(NameTailMax - 1), LongName(NameTailMax), LongName(NameTailMax + 1),
     LongName(NameTailMin) \o <<"/">> \o LongName(NameTailMin)}

NameInputs == SeqsUpTo(NameAlphabet, MaxNameLen) \cup LongNames

\* Frontmatter of the documents tried, with the source field it holds:
\* none at all, no source field, the file itself, a path ending in the
\* file, another file, a name that only ends like the file, and a block
\* that is not YAML
SourceOther == <<"Ops", ".md">>
SourceLookalike == <<"My", "Dev", ".md">>
Frontmatter(source) ==
    <<FM, NL, "name", KeySep, "Dev", NL, "source", KeySep>> \o source \o <<NL, FM, NL>>
FrontmatterOptions ==
    <<[text |-> <<>>, source |-> None],
      [text |-> <<FM, NL, "name", KeySep, "Dev", NL, FM, NL>>, source |-> None],
      [text |-> Frontmatter(FDev), source |-> Some(FDev)],
      [text |-> Frontmatter(PrefixCouncil \o <<"/">> \o FDev),
       source |-> Some(PrefixCouncil \o <<"/">> \o FDev)],
      [text |-> Frontmatter(SourceOther), source |-> Some(SourceOther)],
      [text |-> Frontmatter(SourceLookalike), source |-> Some(SourceLookalike)],
      [text |-> <<FM, NL, "source", KeySep>> \o FDev \o <<NL, "not yaml", NL, FM, NL>>,
       source |-> None]>>

\* Lines of the bodies tried: the legacy marker for the file and for
\* another file, plain text, provenance strings, a blank line
BodyLines ==
    <<<<LegacyMarker>> \o FDev, <<LegacyMarker>> \o SourceOther, <<"text">>,
      <<"source", KeySep>> \o FDev, <<"# source: ">> \o FDev, <<>>>>

RECURSIVE BodyText(_)
BodyText(picks) ==
    IF picks = <<>> THEN <<>>
    ELSE BodyLines[Head(picks)] \o <<NL>> \o BodyText(Tail(picks))

InitParse ==
    /\ cfgFile = AbsentFile
    /\ cfgLast = NoCfgOp
    /\ calls = 0
    /\ theProvider = "claude"
    /\ theConfig = VNull
    /\ thePrefix = PrefixNone
    /\ module_name = <<>>
    /\ src = NoSourceDir
    /\ dst = NoDir
    /\ edited = {}
    /\ \/ \E name \in NameInputs : last = [op |-> "name", name |-> name]
       \/ \E f \in 1..Len(FrontmatterOptions),
             picks \in SeqsUpTo(1..Len(BodyLines), MaxBodyLines) :
             last = [op |-> "document", frontmatter |-> f, body |-> picks,
                     content |-> FrontmatterOptions[f].text \o BodyText(picks)]

\* validate_agent_name on the name drawn
ValidateAgentName ==
    /\ last.op = "name"
    /\ last' = [op |-> "validate_agent_name", name |-> last.name,
                ok |-> validate_agent_name(last.name)]
    /\ calls' = calls + 1
    /\ UNCHANGED <<cfgVars, paramVars, src, dst, edited>>

\* is_synced_from on the document drawn, against Dev.md
IsSyncedFrom ==
    /\ last.op = "document"
    /\ last' = [op |-> "is_synced_from", frontmatter |-> last.frontmatter,
                body |-> last.body, expected_source |-> FDev,
                result |-> is_synced_from(last.content, FDev)]
    /\ calls' = calls + 1
    /\ UNCHANGED <<cfgVars, paramVars, src, dst, edited>>

NextParse == ValidateAgentName \/ IsSyncedFrom

SpecParse == InitParse /\ [][NextParse]_vars

----------------------------------------------------------------------------
(* Documents with and without a metadata block *)

\* What the documents tried begin with, the field line of the block, what
\* closes the block, and the text after it
Openings == <<<<>>, <<FM, NL>>, <<"text", NL, FM, NL>>, <<FM>>>>
FieldLines == <<<<>>, <<"name", KeySep, "D", "e", "v", NL>>>>
Closings == <<<<>>, <<FM, NL>>, <<"text", FM, NL>>>>
TailTexts == <<<<>>, <<"x">>, <<FillText>>, <<FillText, "x">>, <<BigText>>>>

InitFrontmatter ==
    /\ cfgFile = AbsentFile
    /\ cfgLast = NoCfgOp
    /\ calls = 0
    /\ theProvider \in Providers
    /\ theConfig = VNull
    /\ thePrefix = PrefixNone
    /\ module_name = <<>>
    /\ src = NoSourceDir
    /\ dst \in {NoDir, EmptyDir}
    /\ edited = {}
    /\ \E o \in 1..Len(Openings), f \in 1..Len(FieldLines),
          c \in 1..Len(Closings), t \in 1..Len(TailTexts) :
          last = [op |-> "document",
                  content |-> Openings[o] \o FieldLines[f] \o Closings[c] \o TailTexts[t]]

\* split_frontmatter and fm_body on the document drawn
FmBody ==
    /\ last.op = "document"
    /\ last' = [op |-> "fm_body", content |-> last.content,
                split |-> split_frontmatter(last.content),
                body |-> fm_body(last.content)]
    /\ calls' = calls + 1
    /\ UNCHANGED <<cfgVars, paramVars, src, dst, edited>>

\* deploy_agent on the document drawn, as source file Dev.md
DeployDocument ==
    /\ last.op = "document"
    /\ \E dry_run \in BOOLEAN :
          \E r \in {deploy_agent(last.content, FDev, dst, theProvider, theConfig,
                                dry_run, thePrefix)} :
             /\ dst' = r.dst
             /\ last' = [op |-> "deploy_document", content |-> last.content,
                         dry |-> dry_run, pre |-> dst, result |-> r.result]
    /\ calls' = calls + 1
    /\ UNCHANGED <<cfgVars, paramVars, src, edited>>

NextFrontmatter == FmBody \/ DeployDocument

SpecFrontmatter == InitFrontmatter /\ [][NextFrontmatter]_vars

----------------------------------------------------------------------------
(* Texts handed to strip_managed_block *)

\* The lines the texts are made of: blank, plain, the two delimiters, and
\* the begin delimiter followed by a carriage return
LineChoices ==
    <<<<>>, <<"x">>, <<"y">>, <<CODEX_BLOCK_BEGIN>>, <<CODEX_BLOCK_END>>,
      <<CODEX_BLOCK_BEGIN, CR>>>>

\* The text of the lines picked, each ended by a line feed
RECURSIVE JoinLines(_)
JoinLines(picks) ==
    IF picks = <<>> THEN <<>>
    ELSE LineChoices[Head(picks)] \o <<NL>> \o JoinLines(Tail(picks))

\* Texts of up to MaxStripLines lines, with and without the final line feed
StripInputs ==
    {JoinLines(p) : p \in SeqsUpTo(1..Len(LineChoices), MaxStripLines)}
    \cup {Front(JoinLines(p)) :
             p \in SeqsUpTo(1..Len(LineChoices), MaxStripLines) \ {<<>>}}

InitStrip ==
    /\ cfgFile = AbsentFile
    /\ cfgLast = NoCfgOp
    /\ calls = 0
    /\ theProvider = "codex"
    /\ theConfig = VNull
    /\ thePrefix = PrefixNone
    /\ module_name = <<>>
    /\ src = NoSourceDir
    /\ dst = NoDir
    /\ edited = {}
    /\ \E content \in StripInputs : last = [op |-> "content", content |-> content]

\* strip_managed_block on the text drawn, with the delimiters of the
\* managed block
StripManagedBlock ==
    /\ last.op = "content"
    /\ last' = [op |-> "strip_managed_block", content |-> last.content,
                output |-> strip_managed_block(last.content, CODEX_BLOCK_BEGIN,
                                               CODEX_BLOCK_END)]
    /\ calls' = calls + 1
    /\ UNCHANGED <<cfgVars, paramVars, src, dst, edited>>

NextStrip == StripManagedBlock

SpecStrip == InitStrip /\ [][NextStrip]_vars

----------------------------------------------------------------------------
(* The provider profile on destination paths and identifiers *)

\* Pieces of the destination paths tried
PathAlphabet == {"/", "home", "agents", ".claude", ".gemini", ".codex", ".opencode"}
PathInputs == SeqsUpTo(PathAlphabet, MaxPathLen)

\* Characters of the identifiers tried, and the two names of the tests
KebabAlphabet == {"H", "C", "l", "3", "_"}
NameHTTPClient == <<"H", "T", "T", "P", "C", "l", "i", "e", "n", "t">>
NameModel3Config == <<"M", "o", "d", "e", "l", "3", "C", "o", "n", "f", "i", "g">>
KebabInputs ==
    SeqsUpTo(KebabAlphabet, MaxKebabLen) \cup {NameHTTPClient, NameModel3Config}

InitProvider ==
    /\ cfgFile = AbsentFile
    /\ cfgLast = NoCfgOp
    /\ calls = 0
    /\ theConfig = VNull
    /\ thePrefix = PrefixNone
    /\ module_name = <<>>
    /\ src = NoSourceDir
    /\ dst = NoDir
    /\ edited = {}
    /\ \/ /\ theProvider = "claude"
          /\ \E path \in PathInputs : last = [op |-> "path", path |-> path]
       \/ /\ theProvider \in Providers
          /\ \E name \in KebabInputs : last = [op |-> "identifier", name |-> name]

\* Provider::from_path on the path drawn
FromPath ==
    /\ last.op = "path"
    /\ last' = [op |-> "from_path", path |-> last.path, provider |-> from_path(last.path)]
    /\ calls' = calls + 1
    /\ UNCHANGED <<cfgVars, paramVars, src, dst, edited>>

\* Provider::format_name on the identifier drawn
FormatName ==
    /\ last.op = "identifier"
    /\ last' = [op |-> "format_name", name |-> last.name,
                out |-> format_name(theProvider, last.name)]
    /\ calls' = calls + 1
    /\ UNCHANGED <<cfgVars, paramVars, src, dst, edited>>

NextProvider == FromPath \/ FormatName

SpecProvider == InitProvider /\ [][NextProvider]_vars

----------------------------------------------------------------------------
(* Managed block: line counts *)

RECURSIVE CountLines(_, _)
CountLines(lines, tok) ==
    IF lines = <<>> THEN 0
    ELSE (IF Head(lines) = <<tok>> THEN 1 ELSE 0) + CountLines(Tail(lines), tok)

\* C9: a second write_codex_config_block call with the same entries and
\* prefix leaves config.toml byte-identical to what the first call left.
C9_WriteIdempotent ==
    (cfgLast.op = "write" /\ ~cfgLast.dry /\ cfgLast.again) => cfgFile = cfgLast.pre

\* C10: after a write_codex_config_block call the file holds exactly one
\* begin-delimiter line and exactly one end-delimiter line.
C10_OneManagedBlock ==
    (cfgLast.op = "write" /\ ~cfgLast.dry) =>
        /\ CountLines(Lines(cfgFile.content), CODEX_BLOCK_BEGIN) = 1
        /\ CountLines(Lines(cfgFile.content), CODEX_BLOCK_END) = 1

----------------------------------------------------------------------------
(* Deploy engine: ownership, idempotence, dry run, refusals *)

\* The artifact path of the last deploy_agent call (its source document
\* yields a record)
LastArtifact == ArtifactPath(last.meta.v.name, agent_extension(theProvider))

\* The content names filename as its source: in the source field of its
\* frontmatter, in a legacy first body line, or in a leading "# source:"
\* comment
MarkerFor(content, filename) ==
    \/ LET source == fm_value(content, "source")
       IN source.some /\ (source.v = filename \/ EndsWith(source.v, <<"/">> \o filename))
    \/ FirstLine(fm_body(content)) = <<LegacyMarker>> \o filename
    \/ LET first == FirstLine(content)
       IN StartsWith(first, <<"# source: ">>) /\ EndsWith(first, filename)

\* The destination of the last deploy_agent call held a file that does not
\* name the source document as its source
UserOwnedBefore ==
    /\ last.op = "deploy_agent"
    /\ last.meta.some
    /\ exists(last.pre, LastArtifact)
    /\ \/ ~readable(last.pre, LastArtifact)
       \/ ~MarkerFor(read_to_string(last.pre, LastArtifact), last.filename)

\* C1 as stated: whenever the destination artifact exists and carries no
\* provenance marker, or one for another source, deploy_agent returns
\* SkippedUserOwned and leaves the destination unchanged.
C1_UserOwnedAlwaysSkipped ==
    UserOwnedBefore => (last.result = "SkippedUserOwned" /\ dst = last.pre)

\* C1 amended: when the identifier of the source document passes validation
\* and the destination artifact is a regular text file (not a symbolic link,
\* readable as UTF-8) that carries no provenance marker, or one for another
\* source, deploy_agent returns SkippedUserOwned and leaves the destination
\* unchanged.
C1_UserOwnedSkipped ==
    (/\ UserOwnedBefore
     /\ agent_name_regex(last.meta.v.name)
     /\ last.pre.files[LastArtifact].kind = "file"
     /\ readable(last.pre, LastArtifact))
    => (last.result = "SkippedUserOwned" /\ dst = last.pre)

C1_Witness ==
    /\ UserOwnedBefore
    /\ agent_name_regex(last.meta.v.name)
    /\ last.pre.files[LastArtifact].kind = "file"
    /\ readable(last.pre, LastArtifact)
    /\ ~last.dry
    /\ last.result = "SkippedUserOwned"

\* C4: deploying the same unchanged source document a second time, right
\* after a deploy of it that returned Deployed, returns Deployed again and
\* leaves the destination byte-identical, for every provider.
C4_DeployTwiceIdentical ==
    (last.op = "deploy_agent" /\ ~last.dry /\ last.again)
    => (last.result = "Deployed" /\ dst = last.pre)

\* C5: the primary artifact written by a successful deploy passes
\* is_synced_from against the source filename.
C5_ProvenanceRoundtrip ==
    (last.op = "deploy_agent" /\ ~last.dry /\ last.result = "Deployed")
    => is_synced_from(read_to_string(dst, Head(last.writes)), last.filename)

\* C6: a dry-run deploy_agents_from_dir returns the (filename, outcome) list
\* the real pass returns from the same state, and changes nothing.
C6_DryRunSameOutcomes ==
    (last.op = "deploy_agents_from_dir" /\ last.dry)
    => (/\ last.ok = last.other.ok
        /\ last.results = last.other.results
        /\ dst = last.pre)

\* A path directly under the destination: an identifier without path
\* separator and without "..", then the extension
WrittenUnderDst(path) ==
    /\ Len(path) >= 3
    /\ path[Len(path) - 1] = "."
    /\ Last(path) \in {"md", "toml", "prompt.md"}
    /\ \A i \in 1..(Len(path) - 2) : path[i] \notin {"/", "\\"}
    /\ \A i \in 1..(Len(path) - 2) : ~(path[i] = "." /\ path[i + 1] = ".")

\* C7: when the extracted identifier fails validation deploy_agent returns
\* an error and the destination is unchanged; every path the engine writes
\* is the destination joined with an identifier without separator or "..".
C7_InvalidIdentifierRefused ==
    /\ (last.op = "deploy_agent" /\ last.meta.some /\ ~agent_name_regex(last.meta.v.name))
       => (last.result = "Err" /\ dst = last.pre)
    /\ (last.op \in {"deploy_agent", "deploy_agents_from_dir"})
       => \A i \in 1..Len(last.writes) : WrittenUnderDst(last.writes[i])

C7_Witness ==
    /\ last.op = "deploy_agent"
    /\ last.meta.some
    /\ last.meta.v.name = NameEvil
    /\ ~last.dry
    /\ last.result = "Err"
    /\ last.pre.files # EmptyFiles

\* C8: when the destination artifact path is a symbolic link, dangling or
\* not, deploy_agent returns an error and the destination is unchanged.
C8_SymlinkRefused ==
    (/\ last.op = "deploy_agent"
     /\ last.meta.some
     /\ LastArtifact \in DOMAIN last.pre.files
     /\ last.pre.files[LastArtifact].kind = "symlink")
    => (last.result = "Err" /\ dst = last.pre)

C8_Witness ==
    /\ last.op = "deploy_agent"
    /\ last.meta.some
    /\ agent_name_regex(last.meta.v.name)
    /\ LastArtifact \in DOMAIN last.pre.files
    /\ last.pre.files[LastArtifact].kind = "symlink"
    /\ ~last.pre.files[LastArtifact].dangling
    /\ ~last.dry
    /\ last.result = "Err"

----------------------------------------------------------------------------
(* Install runs: user-owned artifacts and orphan retraction *)

\* C2: once a person has removed the provenance marker of a deployed
\* artifact, no later install run modifies or deletes that file.
C2_UserOwnedNeverTouched ==
    last.op = "run" =>
        \A path \in edited :
            path \in DOMAIN last.pre.files =>
                /\ path \in DOMAIN dst.files
                /\ dst.files[path] = last.pre.files[path]

\* The content carries a provenance marker of the engine, in any form
MarkerPresent(content) ==
    \/ fm_value(content, "source").some
    \/ StartsWith(FirstLine(fm_body(content)), <<LegacyMarker>>)
    \/ StartsWith(FirstLine(content), <<"# source: ">>)

\* The identifiers the previous entry holds and the current run did not
\* install, whose artifact file exists when reconciliation starts
OrphansOfRun ==
    {last.previous[i] : i \in {j \in 1..Len(last.previous) :
        /\ ~Contains(last.installed, last.previous[j])
        /\ exists(last.mid, ArtifactPath(last.previous[j], agent_extension(theProvider)))}}

\* C3: orphan reconciliation of a real run removes the artifact (and the
\* Codex companion) of an identifier of the previous entry that is not in
\* the current set when the artifact still carries engine provenance, and
\* leaves the artifact in place when a person has edited the marker away.
C3_OrphanRetraction ==
    (last.op = "run" /\ last.code = 0 /\ ~last.dry /\ module_name # <<>>) =>
        \A name \in OrphansOfRun :
            LET path == ArtifactPath(name, agent_extension(theProvider))
            IN /\ MarkerPresent(read_to_string(last.mid, path))
                  => (/\ path \notin DOMAIN dst.files
                      /\ ArtifactPath(name, "prompt.md") \notin DOMAIN dst.files)
               /\ (path \in edited /\ ~MarkerPresent(read_to_string(last.mid, path)))
                  => (/\ path \in DOMAIN dst.files
                      /\ dst.files[path] = last.mid.files[path])

----------------------------------------------------------------------------
(* Managed block: the content outside it *)

\* The pieces of s, each with the line break that ends it
RECURSIVE RawLines(_)
RawLines(s) ==
    IF s = <<>> THEN <<>>
    ELSE Bind(FirstNL(s, 1), LAMBDA i :
         IF i = 0 THEN <<s>>
         ELSE <<SubSeq(s, 1, i)>>
              \o Bind(SubSeq(s, i + 1, Len(s)), LAMBDA rest : RawLines(rest)))

\* What a piece reads as, without its line ending
LineText(raw) ==
    IF raw # <<>> /\ Last(raw) = NL THEN LineOf(Front(raw), TRUE) ELSE raw

\* The bytes of the pieces that lie outside the delimiter lines and the
\* lines between them
RECURSIVE OutsideLoop(_, _)
OutsideLoop(raws, skip) ==
    IF raws = <<>> THEN <<>>
    ELSE Bind(LineText(Head(raws)), LAMBDA line :
         IF line = <<CODEX_BLOCK_BEGIN>> THEN OutsideLoop(Tail(raws), TRUE)
         ELSE IF line = <<CODEX_BLOCK_END>> THEN OutsideLoop(Tail(raws), FALSE)
         ELSE IF skip THEN OutsideLoop(Tail(raws), skip)
         ELSE Head(raws) \o OutsideLoop(Tail(raws), skip))

OutsideBlock(content) == OutsideLoop(RawLines(content), FALSE)

\* C11: write_codex_config_block on a pre-existing config.toml leaves the
\* bytes outside the managed block as they were (same order, same blank
\* lines, same line endings), apart from the one blank line that separates
\* them from the block.
C11_OutsideBlockUntouched ==
    (cfgLast.op = "write" /\ ~cfgLast.dry /\ cfgLast.pre.exists) =>
        \E before \in {OutsideBlock(cfgLast.pre.content)},
           after \in {OutsideBlock(cfgFile.content)} :
            \/ after = before
            \/ before # <<>> /\ after = before \o <<NL>>

----------------------------------------------------------------------------
(* Manifest: read after update *)

\* C12: once manifest::update has been called, manifest::read of a module
\* returns the entry list of the most recent update of that module (empty
\* when there was none or it was empty), whatever was updated for the other
\* module, and the manifest file exists exactly when some module has a
\* non-empty entry list.
C12_ReadReturnsLatestUpdate ==
    /\ last.op = "manifest_read" => last.result = last.recent[last.module]
    /\ last.op = "manifest_update" =>
          /\ last.ok
          /\ \A m \in DOMAIN last.recent : manifest_read(dst, m) = last.recent[m]
    /\ (last.op \in {"manifest_read", "manifest_update"} /\ last.updates > 0) =>
          (exists(dst, MANIFEST_FILE) <=> \E m \in DOMAIN last.recent : last.recent[m] # <<>>)

\* Both modules were updated, the other one last, and a read of the first
\* returned its two entries
C12_Witness ==
    /\ last.op = "manifest_read"
    /\ last.updates >= 2
    /\ last.module = ModCouncil
    /\ last.result = <<NameDev, NameOps>>
    /\ last.recent[ModOther] # <<>>

----------------------------------------------------------------------------
(* clean_agents: what is removed *)

\* The identifier a source file declares (name, else claude.name)
DeclaredName(filename) ==
    OrElse(fm_value(src.files[filename], "name"), fm_value(src.files[filename], "claude.name"))

\* d holds at path the artifact of a source file that declares its
\* identifier, with provenance naming that source file
ProvenanceMatches(d, path) ==
    \E filename \in DOMAIN src.files :
        /\ IsMd(filename)
        /\ DeclaredName(filename).some
        /\ DeclaredName(filename).v # <<>>
        /\ path = ArtifactPath(DeclaredName(filename).v, agent_extension(theProvider))
        /\ exists(d, path)
        /\ readable(d, path)
        /\ MarkerFor(read_to_string(d, path), filename)

\* path is the Codex companion of an artifact with matching provenance
CompanionOfMatch(d, path) ==
    /\ theProvider = "codex"
    /\ \E filename \in DOMAIN src.files :
          /\ DeclaredName(filename).some
          /\ path = ArtifactPath(DeclaredName(filename).v, "prompt.md")
          /\ ProvenanceMatches(d, ArtifactPath(DeclaredName(filename).v,
                                               agent_extension(theProvider)))

\* C13: a real clean_agents call that succeeds removes exactly the
\* artifacts whose provenance matches the source file declaring their
\* identifier (a Codex '# source: <filename>' first line included) and, for
\* Codex, their companions; everything else stays as it was, and the
\* identifiers returned are those of the artifacts removed.
C13_CleanRemovesExactlySynced ==
    (last.op = "clean_agents" /\ ~last.dry /\ last.ok /\ src.dir /\ last.pre.dir) =>
        /\ \A path \in DOMAIN last.pre.files :
              IF ProvenanceMatches(last.pre, path) \/ CompanionOfMatch(last.pre, path)
              THEN path \notin DOMAIN dst.files
              ELSE path \in DOMAIN dst.files /\ dst.files[path] = last.pre.files[path]
        /\ \A filename \in DOMAIN src.files :
              (DeclaredName(filename).some /\ DeclaredName(filename).v # <<>>) =>
                  (Contains(last.removed, DeclaredName(filename).v)
                   <=> ProvenanceMatches(last.pre,
                                         ArtifactPath(DeclaredName(filename).v,
                                                      agent_extension(theProvider))))

----------------------------------------------------------------------------
(* Tier resolution: fast, strong, pass-through *)

\* C14: resolve_model("fast", G, P) and resolve_model(G.fast, G, P) are
\* P.fast, and resolve_model(x, G, P) is x when x is none of "fast",
\* "strong", G.fast, G.strong.
C14_FastTierAndPassThrough ==
    last.op = "resolve_model" =>
        /\ (last.model = <<"fast">> \/ last.model = last.global.fast)
              => last.result = last.provider.fast
        /\ (last.model \notin {<<"fast">>, <<"strong">>, last.global.fast,
                               last.global.strong})
              => last.result = last.model

\* A request by the global fast alias, which is also the global strong
\* alias, resolved to a provider fast model that differs from the strong one
C14_Witness ==
    /\ last.op = "resolve_model"
    /\ last.model = last.global.fast
    /\ last.model = last.global.strong
    /\ last.model # <<"fast">>
    /\ last.provider.fast # last.provider.strong
    /\ last.result = last.provider.fast

\* C15 as stated: resolve_model("strong", G, P) and resolve_model(G.strong,
\* G, P) are P.strong for all G and P.
C15_StrongTierAlways ==
    (last.op = "resolve_model"
     /\ (last.model = <<"strong">> \/ last.model = last.global.strong))
    => last.result = last.provider.strong

\* C15 amended: resolve_model("strong", G, P) and resolve_model(G.strong, G,
\* P) are P.strong when the requested string is neither "fast" nor G.fast
\* (the fast tier is matched first).
C15_StrongTierUnlessFast ==
    (last.op = "resolve_model"
     /\ (last.model = <<"strong">> \/ last.model = last.global.strong)
     /\ last.model # <<"fast">>
     /\ last.model # last.global.fast)
    => last.result = last.provider.strong

\* A request by the global strong alias, not the word "strong", resolved to
\* a provider strong model that differs from the request and the fast model
C15_Witness ==
    /\ last.op = "resolve_model"
    /\ last.model = last.global.strong
    /\ last.model # <<"strong">>
    /\ last.model # <<"fast">>
    /\ last.model # last.global.fast
    /\ last.provider.fast # last.provider.strong
    /\ last.result = last.provider.strong
    /\ last.result # last.model

----------------------------------------------------------------------------
(* Configuration queries: whitelist, default tiers *)

\* The whitelist of a provider: what lies at providers.<p>.whitelist, else
\* the sequence at providers.<p>.models, else what lies at <p>.models
WhitelistOf(raw, provider) ==
    IF navigate(raw, <<Key("providers"), Key(provider), Key("whitelist")>>).some
    THEN navigate(raw, <<Key("providers"), Key(provider), Key("whitelist")>>)
    ELSE IF /\ navigate(raw, <<Key("providers"), Key(provider), Key("models")>>).some
            /\ navigate(raw, <<Key("providers"), Key(provider), Key("models")>>).v.t = "seq"
    THEN navigate(raw, <<Key("providers"), Key(provider), Key("models")>>)
    ELSE navigate(raw, <<Key(provider), Key("models")>>)

\* C16: with a non-empty whitelist sequence for the provider the answer of
\* is_model_whitelisted is membership of the model; with an empty whitelist
\* it is false for every model; with no whitelist it is true for every
\* model.
C16_WhitelistDecides ==
    last.op = "is_model_whitelisted" =>
        \E w \in {WhitelistOf(theConfig, theProvider)} :
            /\ (w.some /\ w.v.t = "seq" /\ w.v.q # <<>>)
                  => (last.result <=> \E i \in 1..Len(w.v.q) : w.v.q[i] = VStr(last.model))
            /\ (w.some /\ w.v.t = "seq" /\ w.v.q = <<>>) => ~last.result
            /\ ~w.some => last.result

\* An empty whitelist is in force for claude, and a model that is accepted
\* when there is no whitelist is refused
C16_Witness ==
    /\ last.op = "is_model_whitelisted"
    /\ theProvider = "claude"
    /\ WhitelistOf(theConfig, theProvider) = Some(VSeq(<<>>))
    /\ last.model = <<"opus">>
    /\ ~last.result

\* A file of the module root holds a string for the tier in one of the two
\* places global_tiers reads
UsableTier(tier) ==
    \E filename \in DOMAIN src.files :
        /\ src.files[filename].parses
        /\ \/ yaml_string(UnwrapOr(navigate(src.files[filename].value,
                                            <<Key("shared"), Key("models")>>), VNull),
                          Key(tier)).some
           \/ yaml_string(UnwrapOr(navigate(src.files[filename].value, <<Key("models")>>),
                                   VNull),
                          Key(tier)).some

\* C19: SidecarConfig::load returns a configuration whatever the files of
\* the module root are (missing, empty, unparsable), and global_tiers gives
\* fast = "sonnet" and strong = "opus" for a tier no file has a usable value
\* for.
C19_LoadNeverFails ==
    /\ last.op = "load" => theConfig.t \in {"null", "str", "seq", "map"}
    /\ last.op = "global_tiers" =>
          /\ ~UsableTier("fast") => last.result.fast = DefaultFast
          /\ ~UsableTier("strong") => last.result.strong = DefaultStrong

\* Defaults that do not parse, an override with a tier section that has no
\* string in it: both tiers are the built-in ones
C19_Witness ==
    /\ last.op = "global_tiers"
    /\ "defaults.yaml" \in DOMAIN src.files
    /\ ~src.files["defaults.yaml"].parses
    /\ "config.yaml" \in DOMAIN src.files
    /\ src.files["config.yaml"].value = DocTiersUnusable
    /\ "defaults.yml" \notin DOMAIN src.files
    /\ last.result = [fast |-> DefaultFast, strong |-> DefaultStrong]

----------------------------------------------------------------------------
(* Deep merge of the two layers *)

\* merged is base and overlay put together key by key: a key of one side
\* only keeps its value, on a key of both sides two mappings are put
\* together the same way and otherwise the overlay's value is taken
RECURSIVE OverlayWins(_, _, _)
OverlayWins(base, overlay, merged) ==
    /\ merged.t = "map"
    /\ DOMAIN merged.m = DOMAIN base.m \cup DOMAIN overlay.m
    /\ \A k \in DOMAIN merged.m :
          IF k \notin DOMAIN overlay.m THEN merged.m[k] = base.m[k]
          ELSE IF k \notin DOMAIN base.m THEN merged.m[k] = overlay.m[k]
          ELSE IF base.m[k].t = "map" /\ overlay.m[k].t = "map"
          THEN OverlayWins(base.m[k], overlay.m[k], merged.m[k])
          ELSE merged.m[k] = overlay.m[k]

\* The same, with a null overlay value leaving the base value in place
RECURSIVE OverlayWinsUnlessNull(_, _, _)
OverlayWinsUnlessNull(base, overlay, merged) ==
    /\ merged.t = "map"
    /\ DOMAIN merged.m = DOMAIN base.m \cup DOMAIN overlay.m
    /\ \A k \in DOMAIN merged.m :
          IF k \notin DOMAIN overlay.m THEN merged.m[k] = base.m[k]
          ELSE IF k \notin DOMAIN base.m THEN merged.m[k] = overlay.m[k]
          ELSE IF base.m[k].t = "map" /\ overlay.m[k].t = "map"
          THEN OverlayWinsUnlessNull(base.m[k], overlay.m[k], merged.m[k])
          ELSE IF overlay.m[k].t = "null" THEN merged.m[k] = base.m[k]
          ELSE merged.m[k] = overlay.m[k]

\* C20 as stated: the loaded tree is the defaults layer with the override
\* layer merged over it: on a key of both, two mappings merge key by key
\* recursively and in every other case the override's value replaces the
\* base value; keys of the base alone are preserved.
C20_OverlayAlwaysWins ==
    (last.op = "load" /\ last.defaults.t = "map" /\ last.config.t = "map")
    => OverlayWins(last.defaults, last.config, theConfig)

\* C20 amended: as stated, except that a null override value leaves the
\* base value in place.
C20_OverlayWinsUnlessNull ==
    (last.op = "load" /\ last.defaults.t = "map" /\ last.config.t = "map")
    => OverlayWinsUnlessNull(last.defaults, last.config, theConfig)

\* Both layers hold shared.models: the override's fast model replaced the
\* base's, the base's strong model was kept
C20_Witness ==
    /\ last.op = "load"
    /\ last.defaults = DocTiersNested
    /\ last.config = DocTiersFast
    /\ navigate(theConfig, <<Key("shared"), Key("models"), Key("fast")>>) = Some(Str("flash"))
    /\ navigate(theConfig, <<Key("shared"), Key("models"), Key("strong")>>)
          = Some(Str("opus-4"))

----------------------------------------------------------------------------
(* Names and provenance *)

Letter == Upper \cup Lower

\* name holds "..", two dots in a row
HasDotDot(name) == \E i \in 1..(Len(name) - 1) : name[i] = "." /\ name[i + 1] = "."

\* C17: validate_agent_name rejects a name that holds "/", "\" or "..",
\* that starts with a lowercase letter, or that has fewer than 3 or more
\* than 51 characters, and accepts a name of 3 to 51 characters made of an
\* uppercase letter followed by letters and digits only.
C17_NameValidation ==
    last.op = "validate_agent_name" =>
        /\ (\/ \E i \in 1..Len(last.name) : last.name[i] \in {"/", "\\"}
            \/ HasDotDot(last.name)
            \/ (last.name # <<>> /\ last.name[1] \in Lower)
            \/ Len(last.name) < 3
            \/ Len(last.name) > 51)
              => ~last.ok
        /\ (/\ Len(last.name) >= 3
            /\ Len(last.name) <= 51
            /\ last.name[1] \in Upper
            /\ \A i \in 2..Len(last.name) : last.name[i] \in Letter \cup Digit)
              => last.ok

\* A name of 51 characters was accepted
C17_Witness ==
    /\ last.op = "validate_agent_name"
    /\ Len(last.name) = 51
    /\ last.ok

\* C18: is_synced_from(doc, f) is true only if the source field of the
\* metadata block is f or ends with "/" + f, or the first line of the body
\* is the legacy marker followed by f; a marker or provenance string on a
\* later line of the body does not make it true.
C18_ProvenanceOnlyFromHeader ==
    (last.op = "is_synced_from" /\ last.result) =>
        \/ /\ FrontmatterOptions[last.frontmatter].source.some
           /\ \/ FrontmatterOptions[last.frontmatter].source.v = last.expected_source
              \/ EndsWith(FrontmatterOptions[last.frontmatter].source.v,
                          <<"/">> \o last.expected_source)
        \/ /\ last.body # <<>>
           /\ BodyLines[last.body[1]] = <<LegacyMarker>> \o last.expected_source

\* A document whose metadata block names no source and whose body holds
\* the marker for the file on its second line was not taken as synced
C18_Witness ==
    /\ last.op = "is_synced_from"
    /\ ~FrontmatterOptions[last.frontmatter].source.some
    /\ FrontmatterOptions[last.frontmatter].text # <<>>
    /\ Len(last.body) = 2
    /\ BodyLines[last.body[1]] = <<"text">>
    /\ BodyLines[last.body[2]] = <<LegacyMarker>> \o last.expected_source
    /\ ~last.result

----------------------------------------------------------------------------
(* Install runs: the order of deploy pass, reconciliation and manifest *)

\* The identifiers of entry that are not installed and whose artifact
\* exists in d, in the order of the entry
RECURSIVE OrphansAgainst(_, _, _)
OrphansAgainst(entry, installed, d) ==
    IF entry = <<>> THEN <<>>
    ELSE (IF /\ ~Contains(installed, Head(entry))
             /\ exists(d, ArtifactPath(Head(entry), agent_extension(theProvider)))
          THEN <<Head(entry)>> ELSE <<>>)
         \o OrphansAgainst(Tail(entry), installed, d)

\* C21: in a real install run with a module name whose deploy pass
\* completes, reconciliation works on the destination the complete deploy
\* pass left and on the entry the previous run wrote; the deploy pass
\* removes no file; and afterwards the module's entry is the list of the
\* identifiers deployed in this run, absent when that list is empty.
C21_ReconcileBetweenDeployAndManifest ==
    (last.op = "run" /\ last.code = 0 /\ ~last.dry /\ module_name # <<>>) =>
        /\ last.orphans = OrphansAgainst(manifest_read(last.pre, module_name),
                                         last.installed, last.mid)
        /\ DOMAIN last.start.files \subseteq DOMAIN last.mid.files
        /\ manifest_read(dst, module_name) = last.installed
        /\ last.installed = <<>> => module_name \notin DOMAIN ManifestMap(dst)

\* A real run that deploys one identifier and retracts another one that the
\* previous run had recorded
C21_Witness ==
    /\ last.op = "run" /\ last.code = 0 /\ ~last.dry /\ module_name # <<>>
    /\ last.orphans # <<>>
    /\ last.installed # <<>>
    /\ manifest_read(last.pre, module_name) # last.installed

----------------------------------------------------------------------------
(* One pass over a source directory: the writes *)

\* C22: during one deploy_agents_from_dir pass each destination file is
\* written at most once, whatever the source files declare.
C22_WrittenAtMostOnce ==
    last.op = "deploy_agents_from_dir" =>
        \A i, j \in 1..Len(last.writes) : last.writes[i] = last.writes[j] => i = j

----------------------------------------------------------------------------
(* The rendered output: fields and companion file *)

\* Index of the first line from i on that is the frontmatter delimiter,
\* Len(lines) + 1 when there is none
RECURSIVE CloseIndex(_, _)
CloseIndex(lines, i) ==
    IF i > Len(lines) THEN i
    ELSE IF lines[i] = <<FM>> THEN i
    ELSE CloseIndex(lines, i + 1)

\* The metadata lines of a primary output: for Codex every line of the
\* file, otherwise the lines between the two delimiter lines
HeaderLines(primary, prov) ==
    Bind(Lines(primary), LAMBDA lines :
        IF prov = "codex" THEN lines
        ELSE IF lines = <<>> THEN <<>>
        ELSE IF Head(lines) # <<FM>> THEN <<>>
        ELSE SubSeq(lines, 2, CloseIndex(lines, 2) - 1))

\* The metadata of the output has a field named key
HasField(primary, prov, key) ==
    \E lines \in {HeaderLines(primary, prov)} :
        \E i \in 1..Len(lines) :
            IF prov = "codex"
            THEN lines[i] # <<>> /\ lines[i][1] = key \o " = "
            ELSE Len(lines[i]) >= 2 /\ lines[i][1] = key
                 /\ lines[i][2] \in {KeySep, KeyOpen}

\* The output records the provenance string in the provider's form
HasProvenance(primary, prov, source) ==
    IF prov = "codex" THEN FirstLine(primary) = <<"# source: ">> \o source
    ELSE \E lines \in {HeaderLines(primary, prov)} :
            \E i \in 1..Len(lines) : lines[i] = <<"source", KeySep>> \o source

Occurs(s, sub) ==
    \E i \in 1..(Len(s) - Len(sub) + 1) : SubSeq(s, i, i + Len(sub) - 1) = sub

\* The keys a Codex agent file may hold
CodexKeys ==
    {"description = ", "model = ", "model_reasoning_effort = ", "model_instructions_file = "}

\* A flat TOML file: a comment line, then lines key = "value"
FlatToml(text) ==
    \E lines \in {Lines(text)} :
        \A i \in 1..Len(lines) :
            \/ i = 1 /\ StartsWith(lines[i], <<"# source: ">>)
            \/ /\ Len(lines[i]) >= 3
               /\ lines[i][1] \in CodexKeys
               /\ lines[i][2] = "\""
               /\ Last(lines[i]) = "\""

\* C24: a successful real deploy writes a companion file exactly for
\* Codex: there <name>.toml, flat key = value lines without a '---' block
\* and without the body, and <name>.prompt.md holding the body; for Claude
\* and Gemini only <name>.md, with the body embedded.
C24_CompanionOnlyForCodex ==
    (last.op = "deploy_agent" /\ last.result = "Deployed" /\ ~last.dry) =>
        LET name == last.meta.v.name
            body == fm_body(src.files[last.filename])
            primary == read_to_string(dst, LastArtifact)
            prompt_path == ArtifactPath(name, "prompt.md")
        IN IF theProvider = "codex"
           THEN /\ last.writes = <<ArtifactPath(name, "toml"), prompt_path>>
                /\ FlatToml(primary)
                /\ ~Occurs(primary, <<FM>>)
                /\ ~Occurs(primary, body)
                /\ read_to_string(dst, prompt_path) = WithFinalNL(body)
           ELSE /\ last.writes = <<ArtifactPath(name, "md")>>
                /\ HeaderLines(primary, theProvider) # <<>>
                /\ EndsWith(primary, <<FM, NL>> \o WithFinalNL(body))

\* A Codex deploy of a document with a non-empty body
C24_Witness ==
    /\ last.op = "deploy_agent" /\ last.result = "Deployed" /\ ~last.dry
    /\ theProvider = "codex"
    /\ fm_body(src.files[last.filename]) # <<>>
    /\ exists(dst, ArtifactPath(last.meta.v.name, "prompt.md"))

----------------------------------------------------------------------------
(* Provider profile: detection from the path, display names *)

HasPiece(path, piece) == \E i \in 1..Len(path) : path[i] = piece

\* C25: from_path maps a path containing '.gemini' to Gemini, '.codex' to
\* Codex, '.opencode' to OpenCode, and every other path to Claude.
C25_FromPathMapping ==
    last.op = "from_path" =>
        last.provider = (IF HasPiece(last.path, ".gemini") THEN "gemini"
                         ELSE IF HasPiece(last.path, ".codex") THEN "codex"
                         ELSE IF HasPiece(last.path, ".opencode") THEN "opencode"
                         ELSE "claude")

\* Lower-cased name with a hyphen at each step from a lowercase letter or
\* digit to an uppercase letter
RECURSIVE Hyphenated(_, _)
Hyphenated(name, i) ==
    IF i > Len(name) THEN <<>>
    ELSE (IF i > 1 /\ name[i - 1] \in Lower \cup Digit /\ name[i] \in Upper
          THEN <<"-">> ELSE <<>>)
         \o <<to_ascii_lowercase(name[i])>> \o Hyphenated(name, i + 1)

\* C26: the display name is the identifier itself for Claude and Codex;
\* for Gemini an identifier of letters and digits is lower-cased with one
\* hyphen exactly at each step from a lowercase letter or digit to an
\* uppercase letter, so the result neither starts nor ends with a hyphen
\* and has no two hyphens in a row.
C26_DisplayName ==
    last.op = "format_name" =>
        IF theProvider # "gemini" THEN last.out = last.name
        ELSE (last.name # <<>> /\ \A i \in 1..Len(last.name) : last.name[i] \in Alnum) =>
                /\ last.out = Hyphenated(last.name, 1)
                /\ Head(last.out) # "-"
                /\ Last(last.out) # "-"
                /\ \A i \in 1..(Len(last.out) - 1) :
                       ~(last.out[i] = "-" /\ last.out[i + 1] = "-")
                /\ last.name = NameHTTPClient
                   => last.out = <<"h", "t", "t", "p", "c", "l", "i", "e", "n", "t">>

\* A Gemini display name of a valid identifier with a run of uppercase
\* letters followed by a lowercase one
C26_Witness ==
    /\ last.op = "format_name"
    /\ theProvider = "gemini"
    /\ validate_agent_name(last.name)
    /\ last.name = NameHTTPClient
    /\ ~HasPiece(last.out, "-")

----------------------------------------------------------------------------
(* deploy_agent: the order of its checks *)

\* The identifier the document of the last call declares
DeclaredId == DeclaredName(last.filename)

\* C27: deploy_agent applies its checks in the order template prefix,
\* identifier extraction, identifier validation, symlink check, ownership
\* check, write, and stops at the first that applies: a template file is
\* SkippedTemplate with the destination untouched whatever its document
\* declares; a missing identifier is SkippedNoName; an invalid identifier is
\* an error also when the destination is a symlink or user-owned; a symlink
\* destination is an error, not SkippedUserOwned.
C27_CheckOrder ==
    last.op = "deploy_agent" =>
        LET path == ArtifactPath(DeclaredId.v, agent_extension(theProvider)) IN
        IF IsTemplate(last.filename)
        THEN last.result = "SkippedTemplate" /\ dst = last.pre /\ last.writes = <<>>
        ELSE IF ~DeclaredId.some \/ DeclaredId.v = <<>>
        THEN last.result = "SkippedNoName" /\ dst = last.pre
        ELSE IF ~validate_agent_name(DeclaredId.v)
        THEN last.result = "Err" /\ dst = last.pre
        ELSE IF is_symlink(last.pre, path)
        THEN last.result = "Err" /\ dst = last.pre
        ELSE IF exists(last.pre, path) /\ readable(last.pre, path)
                /\ ~is_synced_from(read_to_string(last.pre, path), last.filename)
        THEN last.result = "SkippedUserOwned" /\ dst = last.pre
        ELSE IF exists(last.pre, path) /\ ~readable(last.pre, path)
        THEN last.result = "Err" /\ dst = last.pre
        ELSE last.result = "Deployed"

\* An invalid identifier refused while a symlink sits at its artifact path
C27_Witness ==
    /\ last.op = "deploy_agent"
    /\ DeclaredId.some
    /\ ~validate_agent_name(DeclaredId.v)
    /\ is_symlink(last.pre, ArtifactPath(DeclaredId.v, agent_extension(theProvider)))
    /\ last.result = "Err"

\* A template file whose document declares an invalid identifier
C27_TemplateWitness ==
    /\ last.op = "deploy_agent"
    /\ IsTemplate(last.filename)
    /\ DeclaredId.some /\ ~validate_agent_name(DeclaredId.v)
    /\ last.result = "SkippedTemplate"

----------------------------------------------------------------------------
(* deploy_agents_from_dir: the files processed and the list returned *)

\* Position of a file name in ascending file name order
FilenameRank(f) == CHOOSE i \in 1..Len(FilenameOrder) : FilenameOrder[i] = f

\* C28: deploy_agents_from_dir processes exactly the files of the source
\* directory with extension .md, in ascending file name order, and on
\* success returns one (filename, outcome) pair per such file in that
\* order, skipped ones included; a source path that is not a directory
\* gives an empty list and no error.
C28_ResultsPerMdFile ==
    last.op = "deploy_agents_from_dir" =>
        /\ ~src.dir => (last.ok /\ last.results = <<>> /\ dst = last.pre)
        /\ last.ok =>
              /\ {last.results[i][1] : i \in 1..Len(last.results)}
                    = {f \in DOMAIN src.files : IsMd(f)}
              /\ \A i, j \in 1..Len(last.results) :
                    i < j => FilenameRank(last.results[i][1])
                                < FilenameRank(last.results[j][1])
              /\ \A i \in 1..Len(last.results) :
                    last.results[i][2] \in {"Deployed", "SkippedTemplate",
                                            "SkippedNoName", "SkippedUserOwned"}

\* A successful pass over a directory that holds a file that is not .md,
\* with a deployed and a skipped file in the list
C28_Witness ==
    /\ last.op = "deploy_agents_from_dir"
    /\ last.ok
    /\ \E f \in DOMAIN src.files : ~IsMd(f)
    /\ \E i \in 1..Len(last.results) : last.results[i][2] = "Deployed"
    /\ \E i \in 1..Len(last.results) : last.results[i][2] = "SkippedTemplate"

----------------------------------------------------------------------------
(* Provider tiers: the section and the fallbacks *)

\* The section of provider p: the first that exists of providers.<p>.models
\* (only when it is a mapping), providers.<p> and flat <p>
TierSectionOf(p) ==
    LET nested == navigate(theConfig, <<Key("providers"), Key(p), Key("models")>>)
        direct == navigate(theConfig, <<Key("providers"), Key(p)>>)
        flat == navigate(theConfig, <<Key(p)>>)
    IN IF nested.some /\ nested.v.t = "map" THEN nested
       ELSE IF direct.some THEN direct
       ELSE flat

\* The tier k of the section when it is a string there, else the default
TierOr(section, k, default) ==
    IF /\ section.some
       /\ section.v.t = "map"
       /\ Key(k) \in DOMAIN section.v.m
       /\ section.v.m[Key(k)].t = "str"
    THEN section.v.m[Key(k)].s
    ELSE default

\* C29: provider_tiers(p) reads the first existing of
\* providers.<p>.models (only when a mapping), providers.<p> and flat <p>;
\* a tier that is not a string there is the global tier, and without a
\* section both tiers are the global ones.
C29_ProviderTiers ==
    last.op = "provider_tiers" =>
        /\ last.result.fast
              = TierOr(TierSectionOf(theProvider), "fast", global_tiers(theConfig).fast)
        /\ last.result.strong
              = TierOr(TierSectionOf(theProvider), "strong", global_tiers(theConfig).strong)
        /\ ~TierSectionOf(theProvider).some => last.result = global_tiers(theConfig)

\* providers.gemini.models is a list, so the tier beside it is taken, and
\* the missing strong tier comes from the global section
C29_Witness ==
    /\ last.op = "provider_tiers"
    /\ theProvider = "gemini"
    /\ navigate(theConfig, <<Key("providers"), Key("gemini"), Key("models")>>)
          = Some(VSeq(<<Str("flash")>>))
    /\ navigate(theConfig, <<Key("gemini")>>).some
    /\ last.result = [fast |-> <<"direct-fast">>, strong |-> <<"opus-4">>]

----------------------------------------------------------------------------
(* Metadata extraction: the model tier and the model *)

\* The tier of the last extraction: the override when the configuration
\* has one, else the legacy field when the document has one, else sonnet
TierOfLast ==
    IF last.override.t = "str" THEN last.override.s
    ELSE IF last.legacy.some THEN last.legacy.v
    ELSE <<"sonnet">>

\* C30: the model tier is the per-agent override if present, else the
\* document's legacy claude.model, else "sonnet"; the model is resolve_model
\* of that tier with the global tiers and the tiers of the requesting
\* provider, so the tiers fast and strong give that provider's own model.
C30_TierThenResolve ==
    last.op = "extract_agent_meta" =>
        /\ last.meta.some
        /\ last.meta.v.model
              = resolve_model(TierOfLast, global_tiers(theConfig),
                              provider_tiers(theConfig, theProvider))
        /\ TierOfLast = <<"fast">>
              => last.meta.v.model = provider_tiers(theConfig, theProvider).fast
        /\ TierOfLast = <<"strong">>
              => last.meta.v.model = provider_tiers(theConfig, theProvider).strong

\* The override says strong, the document says fast, and Gemini gets its
\* own strong model
C30_Witness ==
    /\ last.op = "extract_agent_meta"
    /\ theProvider = "gemini"
    /\ last.override = Str("strong")
    /\ last.legacy = Some(<<"fast">>)
    /\ last.meta.some
    /\ last.meta.v.model = <<"gemini-pro">>

----------------------------------------------------------------------------
(* Retraction: dry runs, and what reconciliation may remove *)

\* C31: a dry-run clean_agents or clean_orphaned_agents returns the list a
\* real run from the same state returns, and deletes no file.
C31_DryRunSameList ==
    (last.op \in {"clean_agents", "clean_orphaned_agents"} /\ last.dry) =>
        /\ last.other = [ok |-> last.ok, removed |-> last.removed]
        /\ dst = last.pre

----------------------------------------------------------------------------
(* Managed block: its removal *)

\* The lines of the content that lie outside the delimiter lines and the
\* lines between them
RECURSIVE KeptLines(_, _)
KeptLines(lines, skip) ==
    IF lines = <<>> THEN <<>>
    ELSE IF Head(lines) = <<CODEX_BLOCK_BEGIN>> THEN KeptLines(Tail(lines), TRUE)
    ELSE IF Head(lines) = <<CODEX_BLOCK_END>> THEN KeptLines(Tail(lines), FALSE)
    ELSE IF skip THEN KeptLines(Tail(lines), skip)
    ELSE <<Head(lines)>> \o KeptLines(Tail(lines), skip)

\* lines without the blank lines at its end
RECURSIVE DropBlankTail(_)
DropBlankTail(lines) ==
    IF lines # <<>> /\ Last(lines) = <<>> THEN DropBlankTail(Front(lines)) ELSE lines

\* A line of an agent entry of the managed block
IsEntryLine(line) ==
    line # <<>> /\ Head(line) \in {"[agents.", "description = ", "config_file = "}

\* C32: clean_codex_config_block removes the managed block and keeps the
\* other lines of the file in their order (blank lines at the end aside);
\* on a missing file or a file without the begin delimiter it changes
\* nothing and creates nothing; after a write followed by a clean the file
\* has no delimiter line and no line of an agent entry.
C32_CleanRemovesBlock ==
    (cfgLast.op = "clean" /\ ~cfgLast.dry) =>
        /\ (~cfgLast.pre.exists \/ ~Contains(cfgLast.pre.content, CODEX_BLOCK_BEGIN))
              => cfgFile = cfgLast.pre
        /\ (cfgLast.pre.exists /\ Contains(cfgLast.pre.content, CODEX_BLOCK_BEGIN))
              => DropBlankTail(Lines(cfgFile.content))
                    = DropBlankTail(KeptLines(Lines(cfgLast.pre.content), FALSE))
        /\ cfgLast.afterWrite
              => \E lines \in {Lines(cfgFile.content)} :
                    \A i \in 1..Len(lines) :
                        /\ lines[i] # <<CODEX_BLOCK_BEGIN>>
                        /\ lines[i] # <<CODEX_BLOCK_END>>
                        /\ ~IsEntryLine(lines[i])

\* The document has a closing delimiter: "---" directly after the opening
\* one or at the start of a later line
HasClosing(content) ==
    \E i \in 2..Len(content) :
        content[i] = FM /\ (i = 2 \/ content[i - 1] = NL)

NoMetadata(content) ==
    \/ ContentLen(content) > MAX_CONTENT_SIZE
    \/ ~StartsWith(content, <<FM>>)
    \/ ~HasClosing(content)

\* C33: split_frontmatter yields no metadata for a document that does not
\* begin with the opening delimiter, has no closing delimiter or is larger
\* than 256 KiB, while a delimited document of exactly 256 KiB is parsed;
\* for a document without metadata fm_body returns the whole document and
\* deploy_agent returns SkippedNoName and leaves the destination alone.
C33_NoMetadata ==
    /\ last.op = "fm_body" =>
          /\ NoMetadata(last.content) =>
                (~last.split.some /\ last.body = last.content)
          /\ (/\ ContentLen(last.content) = MAX_CONTENT_SIZE
              /\ StartsWith(last.content, <<FM>>)
              /\ HasClosing(last.content)) => last.split.some
    /\ (last.op = "deploy_document" /\ NoMetadata(last.content)) =>
          (last.result = "SkippedNoName" /\ dst = last.pre)

C33_Witness ==
    /\ last.op = "deploy_document"
    /\ ~last.dry
    /\ ContentLen(last.content) > MAX_CONTENT_SIZE
    /\ StartsWith(last.content, <<FM>>)
    /\ HasClosing(last.content)
    /\ Contains(last.content, "name")
    /\ last.result = "SkippedNoName"

C33_ExactSizeWitness ==
    /\ last.op = "fm_body"
    /\ ContentLen(last.content) = MAX_CONTENT_SIZE
    /\ last.split.some
    /\ last.body = <<FillText>>

\* The identifiers clean_orphaned_agents has a record of and may retract:
\* those of the module's entry in the manifest of d that are not current
Retractable(d, current) ==
    {n \in {manifest_read(d, module_name)[i] :
                i \in 1..Len(manifest_read(d, module_name))} : ~Contains(current, n)}

\* The manifest of d cannot be used: there is none, or it does not parse
NoManifest(d) ==
    \/ MANIFEST_FILE \notin DOMAIN d.files
    \/ ~d.files[MANIFEST_FILE].utf8
    \/ d.files[MANIFEST_FILE].content = <<"garbage", NL>>

\* C34: every file clean_orphaned_agents removes is <name>.<ext>, or for
\* Codex <name>.prompt.md, of a name that is in the module's previous
\* manifest entry and not in the current artifact list; every other file,
\* the manifest included, is left as it was; and nothing is removed or
\* reported when the module name is empty or the manifest is missing or
\* unreadable.
C34_OnlyRecordedOrphans ==
    last.op = "clean_orphaned_agents" =>
        /\ DOMAIN dst.files \subseteq DOMAIN last.pre.files
        /\ dst.dir = last.pre.dir
        /\ \A p \in DOMAIN dst.files : dst.files[p] = last.pre.files[p]
        /\ \A p \in DOMAIN last.pre.files \ DOMAIN dst.files :
              \E n \in Retractable(last.pre, last.current) :
                  \/ p = ArtifactPath(n, agent_extension(theProvider))
                  \/ theProvider = "codex" /\ p = ArtifactPath(n, "prompt.md")
        /\ \A i \in 1..Len(last.removed) :
              last.removed[i] \in Retractable(last.pre, last.current)
        /\ MANIFEST_FILE \in DOMAIN last.pre.files => MANIFEST_FILE \in DOMAIN dst.files
        /\ (module_name = <<>> \/ NoManifest(last.pre)) =>
              (dst = last.pre /\ last.removed = <<>>)

C34_Witness ==
    /\ last.op = "clean_orphaned_agents"
    /\ ~last.dry
    /\ theProvider = "codex"
    /\ last.current = <<NameDev>>
    /\ last.removed = <<NameOps>>
    /\ exists(last.pre, ArtifactPath(NameOps, "prompt.md"))
    /\ ~exists(dst, ArtifactPath(NameOps, "prompt.md"))
    /\ ~exists(dst, ArtifactPath(NameOps, agent_extension(theProvider)))
    /\ exists(dst, ArtifactPath(NameDev, agent_extension(theProvider)))
    /\ MANIFEST_FILE \in DOMAIN dst.files

C34_NoManifestWitness ==
    /\ last.op = "clean_orphaned_agents"
    /\ ~last.dry
    /\ module_name # <<>>
    /\ NoManifest(last.pre)
    /\ exists(last.pre, ArtifactPath(NameDev, agent_extension(theProvider)))

\* An index of a begin delimiter line with no end delimiter line after it
OpenBegin(lines, b) ==
    /\ lines[b] = <<CODEX_BLOCK_BEGIN>>
    /\ \A j \in (b + 1)..Len(lines) : lines[j] # <<CODEX_BLOCK_END>>

\* C35: the output of strip_managed_block has no line equal to a delimiter
\* and does not end with a blank line; the input lines outside the
\* begin..end regions are the lines of the output, in their order (the
\* blank lines trimmed at the end aside); and from a begin delimiter
\* without a later end delimiter on, every line is removed.
C35_StripOutput ==
    last.op = "strip_managed_block" =>
        \E inl \in {Lines(last.content)}, outl \in {Lines(last.output)} :
            /\ \A i \in 1..Len(outl) :
                  outl[i] # <<CODEX_BLOCK_BEGIN>> /\ outl[i] # <<CODEX_BLOCK_END>>
            /\ outl = <<>> \/ Last(outl) # <<>>
            /\ outl = DropBlankTail(KeptLines(inl, FALSE))
            /\ \A b \in 1..Len(inl) :
                  OpenBegin(inl, b) =>
                      outl = DropBlankTail(KeptLines(SubSeq(inl, 1, b - 1), FALSE))

\* The cases in which the property holds: no carriage return in the text,
\* and the lines kept are none at all or not all blank
C35_WithoutCrAndBlankOnly ==
    (/\ last.op = "strip_managed_block"
     /\ ~Contains(last.content, CR)
     /\ \/ KeptLines(Lines(last.content), FALSE) = <<>>
        \/ DropBlankTail(KeptLines(Lines(last.content), FALSE)) # <<>>)
        => C35_StripOutput

\* The source directory with only the files that come before f in file
\* name order
FilesBefore(s, f) ==
    [dir |-> s.dir,
     files |-> [g \in {h \in DOMAIN s.files : FilenameRank(h) < FilenameRank(f)}
                  |-> s.files[g]]]

\* C36: when deploy_agent fails for a file, deploy_agents_from_dir returns
\* the error and no outcome list, the destination is the one the pass over
\* the files earlier in file name order leaves (their artifacts stay
\* written), and no later file is processed.
C36_ErrorAbortsPass ==
    (last.op = "deploy_agents_from_dir" /\ ~last.ok) =>
        /\ last.results = <<>>
        /\ \E f \in {g \in DOMAIN src.files : IsMd(g)} :
              \E before \in {deploy_agents_from_dir(FilesBefore(src, f), last.pre,
                                theProvider, theConfig, last.dry, thePrefix)} :
                 /\ before.ok
                 /\ deploy_agent(src.files[f], f, before.dst, theProvider, theConfig,
                                 last.dry, thePrefix).result = "Err"
                 /\ dst = before.dst
                 /\ last.writes = before.writes
        /\ \A p \in DOMAIN last.pre.files : p \in DOMAIN dst.files

\* A real pass that fails on the second of three files: the artifact of the
\* first is written, the third has none
C36_Witness ==
    /\ last.op = "deploy_agents_from_dir"
    /\ ~last.ok
    /\ ~last.dry
    /\ src = SrcEvilMiddle
    /\ last.pre.files = EmptyFiles
    /\ last.writes # <<>>
    /\ exists(dst, ArtifactPath(NameDev, agent_extension(theProvider)))
    /\ ~exists(dst, ArtifactPath(NameOps, agent_extension(theProvider)))

\* The provenance string of file f under prefix p
SourceString(p, f) == IF p = <<>> THEN f ELSE p \o <<"/">> \o f

\* The artifact of Dev in d is a regular text file that records the source
\* q/Dev.md
RecordsPrefix(d, q) ==
    LET path == ArtifactPath(NameDev, agent_extension(theProvider)) IN
    /\ exists(d, path)
    /\ ~is_symlink(d, path)
    /\ readable(d, path)
    /\ HasProvenance(read_to_string(d, path), theProvider, SourceString(q, FDev))

\* C37: a real deploy_agent of file f under prefix P overwrites an existing
\* artifact whose recorded source is Q/f for another prefix Q, and the
\* artifact then records P/f.
C37_OtherPrefixOverwritten ==
    \A q \in 1..Len(Prefixes) :
        (/\ last.op = "deploy_agent"
         /\ last.filename = FDev
         /\ ~last.dry
         /\ Prefixes[q] # <<>>
         /\ Prefixes[q] # thePrefix
         /\ RecordsPrefix(last.pre, Prefixes[q]))
            => /\ last.result = "Deployed"
               /\ RecordsPrefix(dst, thePrefix)
               /\ ~RecordsPrefix(dst, Prefixes[q])

\* The providers for which the property holds
C37_ClaudeAndGemini == theProvider # "codex" => C37_OtherPrefixOverwritten

\* A Claude deploy under the council prefix over the artifact of the other
\* module
C37_ClaudeReached ==
    /\ last.op = "deploy_agent"
    /\ last.filename = FDev
    /\ ~last.dry
    /\ theProvider = "claude"
    /\ thePrefix = PrefixCouncil
    /\ RecordsPrefix(last.pre, PrefixOther)
    /\ last.result = "Deployed"
    /\ RecordsPrefix(dst, PrefixCouncil)

\* f and g are distinct ordinary .md files of the source directory, f before
\* g in file name order, that declare the same valid identifier
SameIdentifier(f, g) ==
    /\ IsMd(f) /\ IsMd(g)
    /\ ~IsTemplate(f) /\ ~IsTemplate(g)
    /\ FilenameRank(f) < FilenameRank(g)
    /\ DeclaredName(f).some
    /\ DeclaredName(f) = DeclaredName(g)
    /\ validate_agent_name(DeclaredName(f).v)

\* The outcome the pass reports for file f
OutcomeOf(f) ==
    {last.results[i][2] : i \in {k \in 1..Len(last.results) : last.results[k][1] = f}}

\* C38: when two source files declare the same identifier and the
\* destination is empty, a real Claude or Gemini pass deploys the file
\* that comes first in file name order, reports SkippedUserOwned for the
\* second, and the artifact is the one the first file alone produces.
C38_FirstFileWins ==
    \A f, g \in DOMAIN src.files :
        (/\ last.op = "deploy_agents_from_dir"
         /\ ~last.dry
         /\ theProvider \in {"claude", "gemini"}
         /\ last.pre.files = EmptyFiles
         /\ SameIdentifier(f, g))
            => /\ last.ok
               /\ OutcomeOf(f) = {"Deployed"}
               /\ OutcomeOf(g) = {"SkippedUserOwned"}
               /\ \E path \in {ArtifactPath(DeclaredName(f).v,
                                            agent_extension(theProvider))} :
                     /\ exists(dst, path)
                     /\ dst.files[path]
                           = deploy_agent(src.files[f], f, last.pre, theProvider,
                                          theConfig, FALSE, thePrefix).dst.files[path]
                     /\ HasProvenance(read_to_string(dst, path), theProvider,
                                      SourceString(thePrefix, f))

\* The directories in which the first file's body does not open with the
\* legacy marker of the second
C38_WithoutLegacyMarker ==
    src # SrcRelic => C38_FirstFileWins

C38_TwinsReached ==
    /\ last.op = "deploy_agents_from_dir"
    /\ ~last.dry
    /\ theProvider = "gemini"
    /\ last.pre.files = EmptyFiles
    /\ src = SrcTwins
    /\ SameIdentifier(FAlt, FDev)
    /\ OutcomeOf(FDev) = {"SkippedUserOwned"}

\* The path of the companion file of the identifier the last deploy read
LastCompanion == ArtifactPath(last.meta.v.name, "prompt.md")

\* C39: a deploy that returns SkippedUserOwned or an error writes neither
\* the primary nor the companion file; a real Codex deploy that returns
\* Deployed leaves the body at <name>.prompt.md whatever was there before.
C39_CompanionFollowsPrimary ==
    last.op = "deploy_agent" =>
        /\ last.result \in {"SkippedUserOwned", "Err"} =>
              (dst = last.pre /\ last.writes = <<>>)
        /\ (theProvider = "codex" /\ last.result = "Deployed" /\ ~last.dry) =>
              /\ exists(dst, LastCompanion)
              /\ read_to_string(dst, LastCompanion)
                    = WithFinalNL(fm_body(src.files[last.filename]))

\* The property without the deploys that find a directory at the companion
\* path
C39_WithoutDirectory ==
    (last.op = "deploy_agent" /\ last.meta.some
     /\ is_directory(last.pre, LastCompanion) /\ theProvider = "codex")
    \/ C39_CompanionFollowsPrimary

\* A real Codex deploy over a link at the companion path
C39_LinkReached ==
    /\ last.op = "deploy_agent"
    /\ theProvider = "codex"
    /\ ~last.dry
    /\ last.result = "Deployed"
    /\ is_symlink(last.pre, LastCompanion)
    /\ read_to_string(last.pre, LastCompanion) = UserPlain
    /\ read_to_string(dst, LastCompanion) # UserPlain

\* The manifest file of d: its entry in the directory, absent when there
\* is none
ManifestOf(d) ==
    IF MANIFEST_FILE \in DOMAIN d.files THEN Some(d.files[MANIFEST_FILE]) ELSE None

\* What a real run retracts as orphans from destination d, and the
\* destination it leaves
RealRun(d, clean) ==
    Bind(run(src, d, cfgFile, theProvider, theConfig, module_name, clean, FALSE),
         LAMBDA r : [code |-> r.code, orphans |-> r.orphans, dst |-> r.dst])

\* C40: a dry-run install run leaves the manifest file as it was (absent,
\* or with the same content), and a real run after it retracts the same
\* orphans and leaves the same destination as the real run without it.
C40_DryRunKeepsManifest ==
    (last.op = "run" /\ last.dry) =>
        /\ ManifestOf(dst) = ManifestOf(last.pre)
        /\ \A clean \in BOOLEAN : RealRun(dst, clean) = RealRun(last.pre, clean)

\* A dry run on a destination from whose manifest entry the real run
\* retracts Dev
C40_Witness ==
    /\ last.op = "run"
    /\ last.dry
    /\ last.code = 0
    /\ module_name # <<>>
    /\ ManifestOf(last.pre).some
    /\ last.installed = <<NameOps>>
    /\ last.orphans = <<NameDev>>
    /\ RealRun(dst, FALSE).orphans = <<NameDev>>
    /\ manifest_read(RealRun(dst, FALSE).dst, module_name) = <<NameOps>>

====
